---- MODULE Spec2Model ----
(***************************************************************************)
(* Curriculum synthesis engine of learning_compiler: GenerationSpec        *)
(* builder, node builder, proposer, pedagogy critic, quality judge,        *)
(* repair planner, repair executor, loop controller and the DAG utilities. *)
(*                                                                         *)
(* Representation.  A node id "N<k>" is the natural number k ("N0" is 0).  *)
(* A text (title, capability) is the sequence of its lower-case words; the *)
(* separators " and ", ";", " / ", " + " are the words "and" ";" "/" "+".  *)
(* A curriculum is a record [topic, has_nodes, nodes, open_questions];     *)
(* has_nodes says whether the mapping has a "nodes" key, an entry of nodes *)
(* that is not a mapping is the value Junk, open_questions is <<>> when    *)
(* the key is missing. estimate_confidence is not represented.             *)
(***************************************************************************)
EXTENDS Integers, Sequences, FiniteSets, TLC

VARIABLES
    world,        \* which specification runs: "stub", "internal", "planner", "judge", "proposer", "exec", "minutes", "dag", "pipeline"
    pc,           \* position of the call being modelled
    topic,        \* the TopicSpec given
    titles,       \* distribute_minutes: the titles given
    gspec,        \* GenerationSpec of the run
    policy,       \* ModelPolicy of the run
    resolver,     \* the injected ResourceResolver
    draft,        \* optimize: current draft
    best,         \* optimize: best draft so far
    best_score,   \* optimize: score of best
    accepted,     \* optimize: accepted flag
    stop_reason,  \* optimize: stop reason
    iterations,   \* optimize: iteration traces
    iteration,    \* optimize: loop counter
    pedagogy,     \* optimize: the critique of the current round
    report,       \* optimize: the quality report of the current round
    actions,      \* optimize: the actions planned in the current round
    judged,       \* optimize: the drafts handed to the judge, in order
    repairs,      \* optimize: the action tuples handed to the repair executor, in order
    rounded,      \* weighted_total: the dimension tuples rounded in this run, each with its total
    result,       \* OptimizeResult, or NoResult
    exec_in,      \* apply: the curriculum given
    exec_actions, \* apply: the action tuple given
    exec_out,     \* apply: the curriculum returned, or NoResult
    total_minutes,\* distribute_minutes: total given
    minutes,      \* distribute_minutes: the tuple returned, or NoResult
    dag_nodes,    \* dag.py: the node list given
    dag_out,      \* dag.py: the function called and the value returned, or NoResult
    llm_calls,    \* propose: the stages of the run_json calls made, in order
    llm_runs,     \* run_json: the outcomes of the codex runs of the current call, in order
    llm_response, \* propose: the object run_json returned, or NoResult
    llm_client,   \* the injected LLMClient, or NoResult
    run_files,    \* orchestration: the artifacts of the run directory, each with its mtime
    run_clock,    \* orchestration: the time of the filesystem
    run_meta,     \* orchestration: the RunMeta of the command running, or NoResult
    run_json,     \* orchestration: run.json, the persisted RunMeta
    run_cmd,      \* orchestration: the command running, its steps and return code
    run_call      \* orchestration: the last ensure_stage or sync_stage call, or NoResult

vars == <<world, pc, topic, titles, gspec, policy, resolver, draft, best, best_score, accepted, stop_reason,
          iterations, iteration, pedagogy, report, actions, judged, repairs, rounded, result,
          exec_in, exec_actions, exec_out, total_minutes, minutes,
          dag_nodes, dag_out, llm_calls, llm_runs, llm_response, llm_client,
          run_files, run_clock, run_meta, run_json, run_cmd, run_call>>

env_vars == <<world, topic, titles, gspec, policy, resolver>>

loop_vars == <<draft, best, best_score, accepted, stop_reason, iterations, iteration,
               pedagogy, report, actions, judged, repairs, rounded, result>>

exec_vars == <<exec_in, exec_actions, exec_out>>

minutes_vars == <<total_minutes, minutes>>

dag_vars == <<dag_nodes, dag_out>>

llm_vars == <<llm_calls, llm_runs, llm_response, llm_client>>

run_vars == <<run_files, run_clock, run_meta, run_json, run_cmd, run_call>>

-----------------------------------------------------------------------------
(* Generic helpers *)

Max(a, b) == IF a >= b THEN a ELSE b

Min(a, b) == IF a <= b THEN a ELSE b

Range(s) == {s[i] : i \in DOMAIN s}

RECURSIVE SumSeq(_)
SumSeq(s) == IF s = <<>> THEN 0 ELSE s[1] + SumSeq(Tail(s))

MaxOfSet(S) == CHOOSE y \in S : \A z \in S : z <= y

\* list dedup keeping first occurrences
RECURSIVE Dedup(_)
Dedup(s) ==
    IF s = <<>> THEN <<>>
    ELSE LET front == Dedup(SubSeq(s, 1, Len(s) - 1))
         IN IF s[Len(s)] \in Range(front) THEN front ELSE Append(front, s[Len(s)])

\* s[:n] for n >= 0
Take(s, n) == SubSeq(s, 1, Min(n, Len(s)))

\* The concatenation of a sequence of sequences.
RECURSIVE Flatten(_)
Flatten(ss) == IF ss = <<>> THEN <<>> ELSE Head(ss) \o Flatten(Tail(ss))

NoResult == [none |-> TRUE]

NoneId == -1

Junk == [junk |-> TRUE]

\* isinstance(item, dict)
IsDict(item) == "id" \in DOMAIN item

\* Decimal digits of k, as str(k) writes them.
RECURSIVE Digits(_)
Digits(k) == IF k < 10 THEN <<k>> ELSE Digits(k \div 10) \o <<k % 10>>

\* Lexicographic order of two digit strings.
RECURSIVE LexLess(_, _)
LexLess(a, b) ==
    IF a = <<>> THEN b # <<>>
    ELSE IF b = <<>> THEN FALSE
    ELSE IF a[1] # b[1] THEN a[1] < b[1]
    ELSE LexLess(Tail(a), Tail(b))

\* "N<a>" < "N<b>" as Python compares the strings.
IdLess(a, b) == LexLess(Digits(a), Digits(b))

\* sorted(S) for a set of node ids (string order).
RECURSIVE SortedIds(_)
SortedIds(S) ==
    IF S = {} THEN <<>>
    ELSE LET m == CHOOSE x \in S : \A y \in S \ {x} : IdLess(x, y)
         IN <<m>> \o SortedIds(S \ {m})

-----------------------------------------------------------------------------
(* dag.py: shared DAG utilities *)

\* The mappings among the entries of a node list.
DictItems(items) == SelectSeq(items, IsDict)

\* node_map: the ids, in order of first occurrence (dict insertion order).
RECURSIVE KeyOrder(_)
KeyOrder(nodes) ==
    IF nodes = <<>> THEN <<>>
    ELSE LET front == KeyOrder(SubSeq(nodes, 1, Len(nodes) - 1))
             last == nodes[Len(nodes)].id
         IN IF last \in Range(front) THEN front ELSE Append(front, last)

\* node_map: id -> node; a later node with the same id overwrites the earlier one.
node_map(nodes) ==
    [k \in {nodes[i].id : i \in DOMAIN nodes} |->
        nodes[CHOOSE i \in DOMAIN nodes :
                /\ nodes[i].id = k
                /\ \A j \in DOMAIN nodes : nodes[j].id = k => j <= i]]

\* _graph_from_nodes: the prerequisites that count as edges into node k
\* (known ids, not k itself, each once).
EdgePrereqs(by_id, k) ==
    {p \in Range(by_id[k].prerequisites) : p # k /\ p \in DOMAIN by_id}

\* _graph_from_nodes: indegree
Indegree(by_id) == [k \in DOMAIN by_id |-> Cardinality(EdgePrereqs(by_id, k))]

\* _graph_from_nodes: dependents[p], in insertion order (the key order of node ids)
Dependents(nodes, by_id) ==
    [p \in DOMAIN by_id |->
        SelectSeq(KeyOrder(nodes), LAMBDA d : p \in EdgePrereqs(by_id, d))]

\* The while loop of topological_order: pop the head, emit it, release its dependents
\* in sorted order.
RECURSIVE KahnLoop(_, _, _, _)
KahnLoop(queue, ordered, indegree, dependents) ==
    IF queue = <<>> THEN ordered
    ELSE LET current == Head(queue)
             deps == Range(dependents[current])
             indegree2 == [k \in DOMAIN indegree |->
                              IF k \in deps THEN indegree[k] - 1 ELSE indegree[k]]
             released == {k \in deps : indegree2[k] = 0}
         IN KahnLoop(Tail(queue) \o SortedIds(released), Append(ordered, current),
                     indegree2, dependents)

\* a topological_order whose first queue is in the order of the list
topological_order_unsorted(nodes, fallback_sorted_on_cycle) ==
    LET by_id == node_map(nodes)
        indegree == Indegree(by_id)
        ordered == KahnLoop(SelectSeq(KeyOrder(nodes), LAMBDA k : indegree[k] = 0), <<>>,
                            indegree, Dependents(nodes, by_id))
    IN IF Len(ordered) = Cardinality(DOMAIN by_id) THEN ordered
       ELSE IF ~fallback_sorted_on_cycle THEN ordered
       ELSE SortedIds(DOMAIN by_id)

\* a topological_order whose fallback keeps the resolved nodes in front
topological_order_appending(nodes, fallback_sorted_on_cycle) ==
    LET by_id == node_map(nodes)
        indegree == Indegree(by_id)
        ordered == KahnLoop(SortedIds({k \in DOMAIN by_id : indegree[k] = 0}), <<>>,
                            indegree, Dependents(nodes, by_id))
    IN IF Len(ordered) = Cardinality(DOMAIN by_id) THEN ordered
       ELSE IF ~fallback_sorted_on_cycle THEN ordered
       ELSE ordered \o SortedIds(DOMAIN by_id \ Range(ordered))

\* topological_order(nodes, fallback_sorted_on_cycle)
topological_order(nodes, fallback_sorted_on_cycle) ==
    LET by_id == node_map(nodes)
        indegree == Indegree(by_id)
        ordered == KahnLoop(SortedIds({k \in DOMAIN by_id : indegree[k] = 0}), <<>>,
                            indegree, Dependents(nodes, by_id))
    IN IF Len(ordered) = Cardinality(DOMAIN by_id) THEN ordered
       ELSE IF ~fallback_sorted_on_cycle THEN ordered
       ELSE SortedIds(DOMAIN by_id)

\* is_acyclic
is_acyclic(nodes) ==
    Len(topological_order(nodes, FALSE)) = Cardinality(DOMAIN node_map(nodes))

\* The while loop of max_depth; depth is a function on the ids reached so far.
RECURSIVE DepthLoop(_, _, _, _)
DepthLoop(queue, depth, indegree, dependents) ==
    IF queue = <<>> THEN depth
    ELSE LET current == Head(queue)
             current_depth == IF current \in DOMAIN depth THEN depth[current] ELSE 0
             children == dependents[current]
             deps == Range(children)
             depth2 == [k \in DOMAIN depth \cup deps |->
                           IF k \in deps
                           THEN Max(current_depth + 1, IF k \in DOMAIN depth THEN depth[k] ELSE 0)
                           ELSE depth[k]]
             indegree2 == [k \in DOMAIN indegree |->
                              IF k \in deps THEN indegree[k] - 1 ELSE indegree[k]]
         IN DepthLoop(Tail(queue) \o SelectSeq(children, LAMBDA k : indegree2[k] = 0),
                      depth2, indegree2, dependents)

\* a max_depth that counts the nodes of the chain
max_depth_counting_nodes(nodes) ==
    LET by_id == node_map(nodes)
        indegree == Indegree(by_id)
        roots == SelectSeq(KeyOrder(nodes), LAMBDA k : indegree[k] = 0)
        depth == DepthLoop(roots, [k \in Range(roots) |-> 0], indegree,
                           Dependents(nodes, by_id))
    IN IF DOMAIN depth = {} THEN 0 ELSE MaxOfSet({depth[k] : k \in DOMAIN depth}) + 1

\* max_depth
max_depth(nodes) ==
    LET by_id == node_map(nodes)
        indegree == Indegree(by_id)
        roots == SelectSeq(KeyOrder(nodes), LAMBDA k : indegree[k] = 0)
        depth == DepthLoop(roots, [k \in Range(roots) |-> 0], indegree,
                           Dependents(nodes, by_id))
    IN IF DOMAIN depth = {} THEN 0 ELSE MaxOfSet({depth[k] : k \in DOMAIN depth})

-----------------------------------------------------------------------------
(* Texts: sequences of lower-case words *)

\* Words shorter than four characters: they are no tokens of [a-z0-9]{4,}.
ShortWords ==
    {"and", ";", "/", "+", "in", "a", "for", "of", "to", "end"} \cup {ToString(k) : k \in 0..99}

\* _tokens(text)
Tokens(text) == {w \in Range(text) : w \notin ShortWords}

\* Positions where separator sep occurs in text. " and ", " / ", " + " need a word on
\* both sides; ";" is found anywhere.
SepPositions(text, sep) ==
    {i \in DOMAIN text :
        /\ text[i] = sep
        /\ sep # ";" => (1 < i /\ i < Len(text))}

\* One round of the loop of _atomic_phrase over the separators still to try.
RECURSIVE AtomicFrom(_, _)
AtomicFrom(text, separators) ==
    IF separators = <<>> THEN text
    ELSE LET at == SepPositions(text, Head(separators))
             first == CHOOSE i \in at : \A j \in at : i <= j
         IN IF at # {} /\ first > 1
            THEN SubSeq(text, 1, first - 1)
            ELSE AtomicFrom(text, Tail(separators))

\* _atomic_phrase
\* (the capital first letter of the head is not represented)
_atomic_phrase(text) == AtomicFrom(text, <<"and", ";", "/", "+">>)

-----------------------------------------------------------------------------
(* planning/spec.py: GenerationSpec builder.  A topic spec is the record
   [node_count_min, node_count_max (0 for None), scope_in, has_prerequisites,
    quarter_hours_min, quarter_hours_max (total_hours_* in quarters of an hour),
    max_prerequisites_per_node (0 for None), evidence_mode, misconceptions,
    required_outcomes, local_paths (the lengths of the context pack's tuples)]. *)

\* keyword_boosts of _title_weight, in hundredths
KeywordBoost(word) ==
    IF word \in {"integration", "verification"} THEN 25
    ELSE IF word \in {"reliability", "architecture", "orchestration", "testing"} THEN 20
    ELSE IF word = "trade-off" THEN 15
    ELSE IF word = "deliverable" THEN 10
    ELSE 0

\* the for loop of _title_weight: each keyword found in the title counts once
RECURSIVE BoostSum(_)
BoostSum(words) ==
    IF words = {} THEN 0
    ELSE LET w == CHOOSE x \in words : TRUE
         IN KeywordBoost(w) + BoostSum(words \ {w})

\* _title_weight, times 100 * max(1, count - 1) so that it is an integer:
\* 1.0 + 0.4 * index / max(1, count - 1) + boosts + 0.15 for the last title
_title_weight(index, count, title) ==
    LET d == Max(1, count - 1)
    IN 100 * d + 40 * index
       + d * BoostSum(Range(title))
       + (IF index = count - 1 THEN 15 * d ELSE 0)

\* a distribution that drops what the truncation leaves over
distribute_minutes_truncating(total, names) ==
    LET count == Len(names)
        minimum == IF total >= count THEN Min(20, total \div count) ELSE 0
        remainder == Max(0, total - minimum * count)
        weights == [i \in 1..count |-> _title_weight(i - 1, count, names[i])]
    IN {[i \in 1..count |-> minimum + (remainder * weights[i]) \div SumSeq(weights)]}

\* distribute_minutes: the tuples the call can return. The shares are floats in the
\* code. int(remainder * (w / weight_sum)) is the floor of the exact share, or one less
\* when the exact share is a whole number the float falls short of; such an entry then
\* has the largest fraction and gets its minute back first, so the result is the same.
\* The order of the sort by fraction is the order of the exact fractions, except that
\* two exact fractions that are equal are floats that differ either way or not at all:
\* any of the entries tied at the cut can get the extra minute.
distribute_minutes(total, names) ==
    LET count == Len(names)
        minimum == IF total >= count THEN Min(20, total \div count) ELSE 0
        remainder == Max(0, total - minimum * count)
        weights == [i \in 1..count |-> _title_weight(i - 1, count, names[i])]
        weight_sum == SumSeq(weights)
        increments == [i \in 1..count |-> (remainder * weights[i]) \div weight_sum]
        frac == [i \in 1..count |-> (remainder * weights[i]) % weight_sum]
        short == remainder - SumSeq(increments)
        \* order[: remainder - distributed], as a set
        heads == {G \in SUBSET (1..count) :
                     /\ Cardinality(G) = short
                     /\ \A i \in G : \A j \in (1..count) \ G : frac[i] >= frac[j]}
    IN {[i \in 1..count |-> minimum + increments[i] + (IF i \in G THEN 1 ELSE 0)] :
           G \in heads}

\* int(round(x)) for x = twice / 2: Python rounds a half to the even neighbour
RoundHalfEven(twice) ==
    IF twice % 2 = 0 THEN twice \div 2
    ELSE IF ((twice - 1) \div 2) % 2 = 0 THEN (twice - 1) \div 2
    ELSE (twice + 1) \div 2

\* the total of target_minutes: int(round(((min_hours + max_hours) / 2.0) * 60.0))
TotalMinutes(topic_spec) ==
    LET min_q == topic_spec.quarter_hours_min
        max_q == IF topic_spec.quarter_hours_max < min_q THEN min_q
                 ELSE topic_spec.quarter_hours_max
    IN RoundHalfEven((min_q + max_q) * 15)

\* target_minutes
target_minutes(topic_spec, names) == distribute_minutes(TotalMinutes(topic_spec), names)

\* target_nodes
target_nodes(topic_spec) ==
    LET min_nodes == IF topic_spec.node_count_min = 0 THEN 8 ELSE topic_spec.node_count_min
        max0 == IF topic_spec.node_count_max = 0 THEN Max(min_nodes, 16)
                ELSE topic_spec.node_count_max
        max_nodes == IF max0 < min_nodes THEN min_nodes ELSE max0
    IN Max(min_nodes, Min(max_nodes, Max(6, Len(topic_spec.scope_in) + 3)))

\* f"Applied implementation cycle {k}", one title per k from upto down to from
RECURSIVE Padding(_, _)
Padding(from, upto) ==
    IF from > upto THEN <<>>
    ELSE Padding(from, upto - 1)
            \o << <<"applied", "implementation", "cycle", ToString(upto)>> >>

\* seed_titles (without a scope document)
seed_titles(topic_spec, count) ==
    LET seeds == << <<"capability", "framing", "and", "success", "criteria">> >>
                 \o (IF topic_spec.has_prerequisites
                     THEN << <<"prerequisite", "bridge", "and", "terminology", "alignment">> >>
                     ELSE <<>>)
                 \o topic_spec.scope_in
                 \o [k \in 1..topic_spec.required_outcomes |-> <<"deliverable", ToString(k)>>]
                 \o << <<"interface", "integration", "strategy">>,
                       <<"verification", "checklist", "design">> >>
        deduped == Dedup(seeds)
    IN Take(deduped \o Padding(Len(deduped) + 1, count), count)

\* build_generation_spec: the specs the call can return, one per outcome of
\* target_minutes
build_generation_spec(topic_spec) ==
    LET count == target_nodes(topic_spec)
        names == seed_titles(topic_spec, count)
    IN {[topic_label |-> "goal",
         evidence_mode |-> topic_spec.evidence_mode,
         strict_mode |-> topic_spec.evidence_mode = "strict",
         target_nodes |-> count,
         max_prerequisites_per_node |->
             Max(1, IF topic_spec.max_prerequisites_per_node = 0 THEN 3
                    ELSE topic_spec.max_prerequisites_per_node),
         titles |-> names,
         minutes |-> m,
         misconceptions |-> topic_spec.misconceptions,
         required_outcomes |-> topic_spec.required_outcomes,
         local_paths |-> topic_spec.local_paths] : m \in target_minutes(topic_spec, names)}

-----------------------------------------------------------------------------
(* planning/node_builder.py *)

FOUNDATION == "foundation"

APPLICATION == "application"

INTEGRATION == "integration"

VALIDATION == "validation"

\* _stage_for_index (and its copy _stage_for_repair in repair_executor.py)
_stage_for_index(index, total) ==
    IF total <= 3 THEN <<FOUNDATION, APPLICATION, VALIDATION>>[Min(index, 2) + 1]
    ELSE IF index <= Max(1, total \div 4) THEN FOUNDATION
    ELSE IF index <= Max(2, (total * 2) \div 4) THEN APPLICATION
    ELSE IF index <= Max(3, (total * 3) \div 4) THEN INTEGRATION
    ELSE VALIDATION

\* prerequisites that close the chain: the first node requires the last
node_prerequisites_closing(index, total, max_prereq) ==
    IF index = 0 THEN <<total>> ELSE <<index>>

\* node_prerequisites(index, total, max_prereq); max_prereq >= 1
node_prerequisites(index, total, max_prereq) ==
    IF index = 0 THEN <<>>
    ELSE LET stage == _stage_for_index(index, total)
             p1 == <<index>>
             p2 == IF max_prereq >= 2 /\ index >= 3 /\ stage \in {INTEGRATION, VALIDATION}
                   THEN Append(p1, index - 1) ELSE p1
             p3 == IF max_prereq >= 3 /\ index >= 5 /\ stage = VALIDATION
                   THEN Append(p2, index - 3) ELSE p2
         IN Take(Dedup(p3), max_prereq)

\* node_capability
node_capability(title, stage) ==
    IF stage = FOUNDATION
    THEN <<"define">> \o title \o <<"with", "precise", "concepts", "and", "assumptions">>
    ELSE IF stage = APPLICATION
    THEN <<"implement">> \o title \o <<"in", "a", "runnable", "workflow">>
    ELSE IF stage = INTEGRATION
    THEN <<"integrate">> \o title \o <<"with", "prior", "components">>
    ELSE <<"validate">> \o title
            \o <<"end", "to", "end", "with", "explicit", "quality", "criteria", "and", "evidence">>

\* node_core_ideas: three sentences fixed by the title and the stage
node_core_ideas(title, stage) == [title |-> title, stage |-> stage]

\* node_pitfalls
node_pitfalls(index, misconceptions, stage) ==
    IF misconceptions # <<>>
    THEN <<misconceptions[(index % Len(misconceptions)) + 1],
           misconceptions[((index + 1) % Len(misconceptions)) + 1]>>
    ELSE <<stage, "familiarity">>

\* node_mastery: task and pass criteria are fixed by the stage, the title and (through
\* the context pack hints) the number in the node id
node_mastery(id, title, stage, spec) ==
    [stage |-> stage,
     title |-> title,
     outcome |-> IF spec.required_outcomes = 0 THEN NoneId
                 ELSE (id - 1) % spec.required_outcomes,
     anchor |-> IF spec.local_paths = 0 THEN NoneId
                ELSE (id - 1) % spec.local_paths]

-----------------------------------------------------------------------------
(* research.py: the resolver. A resource is its url (an index into the pool); title and
   kind follow from the url, role from the position, citation from the evidence mode. *)

\* _required_resource_count
_required_resource_count(evidence_mode) ==
    IF evidence_mode \in {"standard", "strict"} THEN 2 ELSE 1

\* DeterministicResourceResolver.resolve over a pool of r.pool urls
DeterministicResolve(r, node_index, evidence_mode, used) ==
    LET n == r.pool
        start == node_index % Max(1, n)
        ordered == [off \in 1..n |-> ((start + off - 1) % n) + 1]
        preferred == SelectSeq(ordered, LAMBDA u : u \notin used)
        fallback == SelectSeq(ordered, LAMBDA u : u \in used)
        target == _required_resource_count(evidence_mode)
        picked == Take(preferred \o fallback, target)
    IN IF Len(picked) = 1 /\ target > 1
       THEN Append(picked, ordered[Min(1, Len(ordered) - 1) + 1])
       ELSE picked

\* ResourceResolver.resolve: the injected resolver
Resolve(r, node_index, evidence_mode, used) ==
    IF r.kind = "empty" THEN <<>>
    ELSE DeterministicResolve(r, node_index, evidence_mode, used)

\* build_node
build_node(index, spec, r, used_resource_urls) ==
    LET title == spec.titles[index + 1]
        stage == _stage_for_index(index, spec.target_nodes)
    IN [id |-> index + 1,
        title |-> title,
        capability |-> node_capability(title, stage),
        prerequisites |-> node_prerequisites(index, spec.target_nodes,
                                             spec.max_prerequisites_per_node),
        core_ideas |-> node_core_ideas(title, stage),
        pitfalls |-> node_pitfalls(index, spec.misconceptions, stage),
        mastery_check |-> node_mastery(index + 1, title, stage, spec),
        estimate_minutes |-> spec.minutes[index + 1],
        resources |-> Resolve(r, index, spec.evidence_mode, used_resource_urls)]

-----------------------------------------------------------------------------
(* planning/proposer.py *)

\* urls used by a list of nodes
UrlsOf(nodes) == UNION {Range(nodes[i].resources) : i \in DOMAIN nodes}

\* The node loop of Proposer.propose
RECURSIVE ProposeNodes(_, _, _)
ProposeNodes(count, spec, r) ==
    IF count = 0 THEN <<>>
    ELSE LET front == ProposeNodes(count - 1, spec, r)
         IN Append(front, build_node(count - 1, spec, r, UrlsOf(front)))

\* Proposer.propose with the internal provider
propose(spec, r) ==
    [topic |-> spec.topic_label,
     has_nodes |-> TRUE,
     nodes |-> ProposeNodes(spec.target_nodes, spec, r),
     open_questions |-> IF spec.strict_mode
                        THEN <<Max(0, spec.target_nodes - 2) + 1, spec.target_nodes>>
                        ELSE <<>>]

-----------------------------------------------------------------------------
(* repair_actions.py and repair_executor.py *)

SPLIT_NODE == "split_node"

MERGE_NODES == "merge_nodes"

REWRITE_NODE == "rewrite_node"

REWIRE_PREREQS == "rewire_prereqs"

RETARGET_RESOURCES == "retarget_resources"

RETIME_NODE == "retime_node"

REORDER_NODES == "reorder_nodes"

\* SEVERITY_RANK
SEVERITY_RANK(severity) ==
    IF severity = "critical" THEN 4
    ELSE IF severity = "high" THEN 3
    ELSE IF severity = "medium" THEN 2
    ELSE 1

\* RepairAction (reason, node_a and node_b are not represented: nothing reads them)
RepairAction(action_type, severity, node_id) ==
    [action_type |-> action_type, severity |-> severity, node_id |-> node_id]

\* What a call gives when it raises instead of returning.
Raised == [raised |-> TRUE]

\* _id_to_index: "N<k>" -> k - 1
_id_to_index(node_id) == node_id - 1

\* The sort key of reorder_nodes, (len(prerequisites), str(id)), compared as tuples.
ReorderKeyLess(a, b) ==
    \/ Len(a.prerequisites) < Len(b.prerequisites)
    \/ Len(a.prerequisites) = Len(b.prerequisites) /\ IdLess(a.id, b.id)

\* a reordering that moves the first entry behind the others
StableSortRotating(nodes) ==
    IF Len(nodes) < 2 THEN nodes ELSE Tail(nodes) \o <<Head(nodes)>>

\* list.sort with that key: stable, so an entry goes behind the entries that do not
\* come after it.
RECURSIVE StableSort(_)
StableSort(nodes) ==
    IF nodes = <<>> THEN <<>>
    ELSE LET front == StableSort(SubSeq(nodes, 1, Len(nodes) - 1))
             x == nodes[Len(nodes)]
             keep == {i \in DOMAIN front : ~ReorderKeyLess(x, front[i])}
             n == IF keep = {} THEN 0 ELSE MaxOfSet(keep)
         IN SubSeq(front, 1, n) \o <<x>> \o SubSeq(front, n + 1, Len(front))

\* _collect_used_urls(nodes, skip_id)
_collect_used_urls(nodes, skip_id) ==
    UNION {Range(nodes[i].resources) : i \in {j \in DOMAIN nodes : nodes[j].id # skip_id}}

\* _replace_node: the first entry whose id is node_id becomes payload
_replace_node(nodes, node_id, payload) ==
    LET hits == {i \in DOMAIN nodes : nodes[i].id = node_id}
    IN IF hits = {} THEN nodes
       ELSE [nodes EXCEPT ![CHOOSE i \in hits : \A j \in hits : i <= j] = payload]

\* LLMRepairExecutor._rewrite_node; spec.titles[index] is read only for an empty title
_rewrite_node(node, index, spec) ==
    LET atom == _atomic_phrase(node.title)
        title == IF atom # <<>> THEN atom ELSE spec.titles[index + 1]
        stage == _stage_for_index(index, Len(spec.titles))
        cap == _atomic_phrase(node.capability)
    IN [node EXCEPT
          !.title = title,
          !.capability = IF cap # <<>> THEN cap ELSE <<"implement">> \o title,
          !.core_ideas = node_core_ideas(title, stage),
          !.pitfalls = node_pitfalls(index, spec.misconceptions, stage),
          !.mastery_check = node_mastery(node.id, title, stage, spec)]

\* _rewrite_node raises IndexError
RewriteRaises(node, index, spec) ==
    _atomic_phrase(node.title) = <<>> /\ index >= Len(spec.titles)

\* LLMRepairExecutor._retarget_resources
_retarget_resources(node, index, nodes, spec, r) ==
    Resolve(r, index, spec.evidence_mode, _collect_used_urls(nodes, node.id))

\* _retarget_resources raises IndexError: spec.titles[index] is evaluated as the
\* default of node.get("title", ...) whether or not the node has a title
RetargetRaises(index, spec) == index >= Len(spec.titles)

\* LLMRepairExecutor._retime_node
_retime_node(node, index, nodes, spec) ==
    LET base == IF index < Len(spec.minutes) THEN spec.minutes[index + 1] ELSE 90
        by_id == node_map(nodes)
        prereq_estimates == {by_id[p].estimate_minutes :
                                p \in Range(node.prerequisites) \cap DOMAIN by_id}
    IN IF prereq_estimates = {} THEN base
       ELSE Min(220, Max(base, MaxOfSet(prereq_estimates) + 10))

\* The node an action with a node id works on, when the action is not skipped:
\* the entry at the position the id's number gives.
ActionTargets(nodes, action) ==
    /\ action.action_type # REORDER_NODES
    /\ action.node_id # NoneId
    /\ _id_to_index(action.node_id) >= 0
    /\ _id_to_index(action.node_id) < Len(nodes)

\* One round of the action loop of LLMRepairExecutor.apply raises
ActionRaises(nodes, action, spec) ==
    /\ ActionTargets(nodes, action)
    /\ LET index == _id_to_index(action.node_id)
       IN \/ /\ action.action_type = REWRITE_NODE
             /\ RewriteRaises(nodes[index + 1], index, spec)
          \/ /\ action.action_type = RETARGET_RESOURCES
             /\ RetargetRaises(index, spec)

\* an action loop that lets an action without node_id work on the first node
ApplyActionOnFirst(nodes, action, spec, r) ==
    IF action.action_type = REORDER_NODES THEN StableSort(nodes)
    ELSE IF action.node_id = NoneId /\ nodes # <<>>
    THEN [nodes EXCEPT ![1].estimate_minutes = 0]
    ELSE IF ~ActionTargets(nodes, action) THEN nodes
    ELSE LET index == _id_to_index(action.node_id)
             node == nodes[index + 1]
             t == action.action_type
         IN _replace_node(nodes, action.node_id,
               IF t = REWRITE_NODE THEN _rewrite_node(node, index, spec)
               ELSE IF t = REWIRE_PREREQS
               THEN [node EXCEPT !.prerequisites =
                        node_prerequisites(index, Len(nodes),
                                           spec.max_prerequisites_per_node)]
               ELSE IF t = RETARGET_RESOURCES
               THEN [node EXCEPT !.resources =
                        _retarget_resources(node, index, nodes, spec, r)]
               ELSE IF t = RETIME_NODE
               THEN [node EXCEPT !.estimate_minutes =
                        _retime_node(node, index, nodes, spec)]
               ELSE node)

\* One round of the action loop of LLMRepairExecutor.apply (when it does not raise)
ApplyAction(nodes, action, spec, r) ==
    IF action.action_type = REORDER_NODES THEN StableSort(nodes)
    ELSE IF ~ActionTargets(nodes, action) THEN nodes
    ELSE LET index == _id_to_index(action.node_id)
             node == nodes[index + 1]
             t == action.action_type
         IN _replace_node(nodes, action.node_id,
               IF t = REWRITE_NODE THEN _rewrite_node(node, index, spec)
               ELSE IF t = REWIRE_PREREQS
               THEN [node EXCEPT !.prerequisites =
                        node_prerequisites(index, Len(nodes),
                                           spec.max_prerequisites_per_node)]
               ELSE IF t = RETARGET_RESOURCES
               THEN [node EXCEPT !.resources =
                        _retarget_resources(node, index, nodes, spec, r)]
               ELSE IF t = RETIME_NODE
               THEN [node EXCEPT !.estimate_minutes =
                        _retime_node(node, index, nodes, spec)]
               ELSE node)

\* The action loop of apply: the node list after the actions, up to the first that raises
RECURSIVE ApplyActions(_, _, _, _)
ApplyActions(nodes, acts, spec, r) ==
    IF acts = <<>> \/ ActionRaises(nodes, Head(acts), spec) THEN nodes
    ELSE ApplyActions(ApplyAction(nodes, Head(acts), spec, r), Tail(acts), spec, r)

\* The action loop of apply raises
RECURSIVE ApplyRaises(_, _, _, _)
ApplyRaises(nodes, acts, spec, r) ==
    /\ acts # <<>>
    /\ \/ ActionRaises(nodes, Head(acts), spec)
       \/ ApplyRaises(ApplyAction(nodes, Head(acts), spec, r), Tail(acts), spec, r)

\* patched.get("nodes", [])
GetNodes(curriculum) == IF curriculum.has_nodes THEN curriculum.nodes ELSE <<>>

\* an executor that always puts the node list in the order of reorder_nodes
apply_reordering(curriculum, acts, spec, r) ==
    LET nodes == DictItems(GetNodes(curriculum))
    IN IF ApplyRaises(nodes, acts, spec, r) THEN Raised
       ELSE [curriculum EXCEPT !.has_nodes = TRUE,
                               !.nodes = StableSort(ApplyActions(nodes, acts, spec, r))]

\* LLMRepairExecutor.apply
apply(curriculum, acts, spec, r) ==
    LET nodes == DictItems(GetNodes(curriculum))
    IN IF ApplyRaises(nodes, acts, spec, r) THEN Raised
       ELSE [curriculum EXCEPT !.has_nodes = TRUE,
                               !.nodes = ApplyActions(nodes, acts, spec, r)]

-----------------------------------------------------------------------------
(* pedagogy_critic.py *)

\* CriticDiagnostic / QualityDiagnostic (the message is not represented)
Diagnostic(rule_id, severity, node_id, hard_fail) ==
    [rule_id |-> rule_id, severity |-> severity, node_id |-> node_id,
     hard_fail |-> hard_fail]

\* _max_prereq_estimate
_max_prereq_estimate(node, by_id) ==
    LET values == {by_id[p].estimate_minutes :
                      p \in Range(node.prerequisites) \cap DOMAIN by_id}
    IN IF values = {} THEN 0 ELSE MaxOfSet(values)

\* The body of the node loop of LLMCritic.critique: the diagnostics of one node
CriticNode(node, by_id) ==
    LET title_tokens == Tokens(node.title)
        cap_tokens == Tokens(node.capability)
        prereqs == node.prerequisites
        overlap == {i \in DOMAIN prereqs :
                      /\ prereqs[i] \in DOMAIN by_id
                      /\ title_tokens \cap (Tokens(by_id[prereqs[i]].title)
                            \cup Tokens(by_id[prereqs[i]].capability)) # {}}
        prereq_peak == _max_prereq_estimate(node, by_id)
    IN (IF /\ prereqs = <<>>
           /\ \/ "integrate" \in cap_tokens
              \/ "validate" \in cap_tokens
              \/ "integration" \in title_tokens
        THEN <<Diagnostic("learner.hidden_prerequisite", "high", node.id, FALSE)>>
        ELSE <<>>)
       \o (IF Len(prereqs) >= 3
           THEN <<Diagnostic("learner.prerequisite_overload", "medium", node.id, FALSE)>>
           ELSE <<>>)
       \o (IF prereqs # <<>> /\ overlap = {}
           THEN <<Diagnostic("learner.concept_jump", "medium", node.id, FALSE)>>
           ELSE <<>>)
       \o (IF prereq_peak > 0 /\ node.estimate_minutes > (prereq_peak * 22) \div 10
           THEN <<Diagnostic("learner.workload_jump", "medium", node.id, FALSE)>>
           ELSE <<>>)

\* The node loop of LLMCritic.critique
CriticNodes(nodes, by_id) == Flatten([i \in DOMAIN nodes |-> CriticNode(nodes[i], by_id)])

\* len([item for item in diagnostics if item.severity in severities])
CountSeverity(diagnostics, severities) ==
    Cardinality({i \in DOMAIN diagnostics : diagnostics[i].severity \in severities})

\* LLMCritic.critique
critique(curriculum) ==
    LET nodes == DictItems(GetNodes(curriculum))
        diagnostics == CriticNodes(nodes, node_map(nodes))
        high == CountSeverity(diagnostics, {"high", "critical"})
        medium == CountSeverity(diagnostics, {"medium"})
        low == CountSeverity(diagnostics, {"low"})
        score == Max(0, 100 - high * 18 - medium * 9 - low * 4)
    IN [score |-> score,
        min_quality_met |-> (high = 0 /\ score >= 72),
        diagnostics |-> diagnostics]

-----------------------------------------------------------------------------
(* quality/rules.py, quality/content_rules.py, quality/quality_model.py *)


\* A dimension's result: its score and the diagnostics it appends.
Scored(score, diagnostics) == [score |-> Max(0, score), diagnostics |-> diagnostics]

\* n copies of x
Repeat(x, n) == [j \in 1..n |-> x]

\* score_structural
score_structural(nodes) ==
    LET ids == {nodes[i].id : i \in DOMAIN nodes}
        duplicate == Cardinality(ids) # Len(nodes)
        missing == Flatten([i \in DOMAIN nodes |->
                      Repeat(Diagnostic("structure.missing_prerequisite", "critical",
                                        nodes[i].id, TRUE),
                             Len(SelectSeq(nodes[i].prerequisites,
                                           LAMBDA p : p \notin ids)))])
        cycle == nodes # <<>> /\ ~is_acyclic(nodes)
    IN Scored(100 - (IF duplicate THEN 60 ELSE 0) - 15 * Len(missing)
                  - (IF cycle THEN 50 ELSE 0),
              (IF duplicate
               THEN <<Diagnostic("structure.duplicate_node_ids", "critical", NoneId, TRUE)>>
               ELSE <<>>)
              \o missing
              \o (IF cycle
                  THEN <<Diagnostic("structure.cycle", "critical", NoneId, TRUE)>>
                  ELSE <<>>))

\* " and " in capability or ";" in capability
CompoundCapability(node) ==
    SepPositions(node.capability, "and") # {} \/ SepPositions(node.capability, ";") # {}

\* score_atomicity
score_atomicity(nodes) ==
    LET offenders == SelectSeq(nodes, CompoundCapability)
    IN Scored(100 - 12 * Len(offenders),
              [i \in DOMAIN offenders |->
                  Diagnostic("atomicity.compound_capability", "high", offenders[i].id, FALSE)]
              \o (IF nodes # <<>> /\ Len(offenders) > Max(1, Len(nodes) \div 4)
                  THEN <<Diagnostic("atomicity.threshold", "critical", NoneId, TRUE)>>
                  ELSE <<>>))

\* a progression rule that takes five nodes for a weak progression
score_progression_from_five(nodes) ==
    LET roots == SelectSeq(nodes, LAMBDA n : n.prerequisites = <<>>)
        all_roots == Len(nodes) >= 5 /\ Len(roots) = Len(nodes)
        shallow == Len(nodes) >= 6 /\ max_depth(nodes) < 2
    IN Scored(100 - (IF all_roots THEN 45 ELSE 0) - (IF shallow THEN 40 ELSE 0),
              (IF all_roots
               THEN <<Diagnostic("progression.all_roots", "high", NoneId, FALSE)>>
               ELSE <<>>)
              \o (IF shallow
                  THEN <<Diagnostic("progression.depth_too_shallow", "high", NoneId, FALSE)>>
                  ELSE <<>>))

\* score_progression
score_progression(nodes) ==
    LET roots == SelectSeq(nodes, LAMBDA n : n.prerequisites = <<>>)
        all_roots == Len(nodes) >= 4 /\ Len(roots) = Len(nodes)
        shallow == Len(nodes) >= 6 /\ max_depth(nodes) < 2
    IN Scored(100 - (IF all_roots THEN 45 ELSE 0) - (IF shallow THEN 40 ELSE 0),
              (IF all_roots
               THEN <<Diagnostic("progression.all_roots", "high", NoneId, FALSE)>>
               ELSE <<>>)
              \o (IF shallow
                  THEN <<Diagnostic("progression.depth_too_shallow", "high", NoneId, FALSE)>>
                  ELSE <<>>))

\* score_resource_relevance. r.relevant is the set of urls whose title and url share a
\* token with the topic corpus (goal, scope_in, focus terms), which is not empty.
score_resource_relevance(nodes, r) ==
    LET per_node == [i \in DOMAIN nodes |->
                       IF nodes[i].resources = <<>>
                       THEN <<Diagnostic("resource.missing", "high", nodes[i].id, TRUE)>>
                       ELSE IF Range(nodes[i].resources) \cap r.relevant = {}
                       THEN <<Diagnostic("resource.weak_relevance", "medium",
                                         nodes[i].id, FALSE)>>
                       ELSE <<>>]
        found == Flatten(per_node)
        n_missing == Len(SelectSeq(found, LAMBDA d : d.rule_id = "resource.missing"))
        urls == Flatten([i \in DOMAIN nodes |-> nodes[i].resources])
        duplicate_urls == Len(urls) - Cardinality(Range(urls))
        repetitive == duplicate_urls > Max(2, Len(nodes) \div 2)
    IN Scored(100 - 18 * n_missing - 8 * (Len(found) - n_missing)
                  - (IF repetitive THEN 10 ELSE 0),
              found
              \o (IF repetitive
                  THEN <<Diagnostic("resource.repetitive_anchor", "medium", NoneId, FALSE)>>
                  ELSE <<>>))

\* len(task) >= 20 and an action verb in the task: true of every task node_mastery
\* writes; a mastery check from elsewhere carries the answer as task_ok
TaskActionable(m) == IF "task_ok" \in DOMAIN m THEN m.task_ok ELSE TRUE

\* len(criteria) >= 20 and a measurable signal in the criteria: likewise
CriteriaMeasurable(m) == IF "criteria_ok" \in DOMAIN m THEN m.criteria_ok ELSE TRUE

\* score_mastery_actionability
score_mastery_actionability(nodes) ==
    LET found == Flatten([i \in DOMAIN nodes |->
                    (IF TaskActionable(nodes[i].mastery_check) THEN <<>>
                     ELSE <<Diagnostic("mastery.non_actionable_task", "high",
                                       nodes[i].id, TRUE)>>)
                    \o (IF CriteriaMeasurable(nodes[i].mastery_check) THEN <<>>
                        ELSE <<Diagnostic("mastery.non_measurable_criteria", "high",
                                          nodes[i].id, TRUE)>>)])
    IN Scored(100 - 12 * Len(found), found)

\* twice the median of a non-empty list of integers
TwiceMedian(values) ==
    LET n == Len(values)
        \* the k-th smallest entry
        kth(k) == CHOOSE v \in Range(values) :
                    /\ Cardinality({i \in DOMAIN values : values[i] < v}) < k
                    /\ Cardinality({i \in DOMAIN values : values[i] <= v}) >= k
    IN IF n % 2 = 1 THEN 2 * kth((n + 1) \div 2) ELSE kth(n \div 2) + kth(n \div 2 + 1)

\* score_effort_coherence (every estimate is a number here)
score_effort_coherence(nodes) ==
    LET estimates == [i \in DOMAIN nodes |-> nodes[i].estimate_minutes]
        flat == Len(estimates) >= 6 /\ Cardinality(Range(estimates)) <= 2
        med2 == TwiceMedian(estimates)
        outlier == med2 > 0 /\ \E i \in DOMAIN estimates : 2 * estimates[i] > med2 * 3
    IN IF estimates = <<>> THEN Scored(0, <<>>)
       ELSE Scored(100 - (IF flat THEN 25 ELSE 0) - (IF outlier THEN 10 ELSE 0),
                   (IF flat
                    THEN <<Diagnostic("effort.flat_distribution", "medium", NoneId, FALSE)>>
                    ELSE <<>>)
                   \o (IF outlier
                       THEN <<Diagnostic("effort.outlier", "low", NoneId, FALSE)>>
                       ELSE <<>>))

\* the first five words of a title, punctuation dropped
TitlePrefix(title) == Take(SelectSeq(title, LAMBDA w : w \notin {";", "/", "+"}), 5)

\* score_redundancy
score_redundancy(nodes) ==
    LET title_prefixes == {TitlePrefix(nodes[i].title) : i \in DOMAIN nodes}
        repetitive == /\ Len(nodes) >= 6
                      /\ Cardinality(title_prefixes) <= Max(2, Len(nodes) \div 3)
    IN Scored(100 - (IF repetitive THEN 25 ELSE 0),
              IF repetitive
              THEN <<Diagnostic("redundancy.title_repetition", "medium", NoneId, FALSE)>>
              ELSE <<>>)

\* what one critic diagnostic takes from the learner-path score
LearnerPenalty(item) ==
    IF item.rule_id = "learner.hidden_prerequisite" THEN 25
    ELSE IF item.severity \in {"high", "critical"} THEN 15
    ELSE IF item.severity = "medium" THEN 8
    ELSE 3

\* score_learner_coherence
score_learner_coherence(ped) ==
    LET items == ped.diagnostics
        hidden == SelectSeq(items, LAMBDA d : d.rule_id = "learner.hidden_prerequisite")
    IN Scored(100 - SumSeq([i \in DOMAIN items |-> LearnerPenalty(items[i])]),
              [i \in DOMAIN hidden |-> [hidden[i] EXCEPT !.hard_fail = TRUE]])

\* weighted_total: int(round(sum of dimension * weight)), the weights in hundredths.
\* The sum is a float: when the exact sum ends in .5 the float lies on either side of
\* it, or on it and is rounded to the even neighbour, so both neighbours can come out.
weighted_total(d) ==
    LET hundredths == 22 * d[1] + 14 * d[2] + 14 * d[3] + 12 * d[4] + 14 * d[5]
                      + 8 * d[6] + 8 * d[7] + 8 * d[8]
        whole == hundredths \div 100
        rest == hundredths % 100
    IN IF rest < 50 THEN {whole}
       ELSE IF rest > 50 THEN {whole + 1}
       ELSE {whole, whole + 1}

\* DeterministicQualityJudge.evaluate: the reports the call can return
evaluate(curriculum, r, ped) ==
    LET nodes == DictItems(GetNodes(curriculum))
        parts == <<score_structural(nodes), score_atomicity(nodes),
                   score_progression(nodes), score_resource_relevance(nodes, r),
                   score_mastery_actionability(nodes), score_effort_coherence(nodes),
                   score_redundancy(nodes), score_learner_coherence(ped)>>
        diagnostics == Flatten([i \in DOMAIN parts |-> parts[i].diagnostics])
    IN {[dimensions |-> [i \in DOMAIN parts |-> parts[i].score],
         total_score |-> total,
         hard_fail_count |-> Len(SelectSeq(diagnostics, LAMBDA d : d.hard_fail)),
         diagnostics |-> diagnostics] :
           total \in weighted_total([i \in DOMAIN parts |-> parts[i].score])}

-----------------------------------------------------------------------------
(* quality/planner.py *)

NoAction == "none"

\* _RULE_ACTIONS.get(rule_id)
_RULE_ACTIONS(rule_id) ==
    IF rule_id \in {"atomicity.compound_capability", "atomicity.threshold",
                    "mastery.non_actionable_task", "mastery.non_measurable_criteria",
                    "redundancy.title_repetition", "learner.concept_jump"}
    THEN REWRITE_NODE
    ELSE IF rule_id \in {"progression.all_roots", "progression.depth_too_shallow",
                         "learner.hidden_prerequisite", "learner.prerequisite_overload"}
    THEN REWIRE_PREREQS
    ELSE IF rule_id \in {"resource.weak_relevance", "resource.repetitive_anchor"}
    THEN RETARGET_RESOURCES
    ELSE IF rule_id \in {"effort.flat_distribution", "effort.outlier",
                         "learner.workload_jump"}
    THEN RETIME_NODE
    ELSE NoAction

\* _to_action_severity
_to_action_severity(value) ==
    IF value \in {"critical", "high", "medium"} THEN value ELSE "low"

\* _action_from_quality and _action_from_critic: the actions of a diagnostics list
ActionsFrom(diagnostics) ==
    LET mapped == SelectSeq(diagnostics, LAMBDA d : _RULE_ACTIONS(d.rule_id) # NoAction)
    IN [i \in DOMAIN mapped |->
          RepairAction(_RULE_ACTIONS(mapped[i].rule_id),
                       _to_action_severity(mapped[i].severity), mapped[i].node_id)]

\* The dedup loop of plan: per (action_type, node_id) the first candidate of the highest
\* severity. The values, in the insertion order of the keys.
RECURSIVE Deduped(_)
Deduped(candidates) ==
    IF candidates = <<>> THEN <<>>
    ELSE LET front == Deduped(SubSeq(candidates, 1, Len(candidates) - 1))
             action == candidates[Len(candidates)]
             same == {i \in DOMAIN front :
                        /\ front[i].action_type = action.action_type
                        /\ front[i].node_id = action.node_id}
         IN IF same = {} THEN Append(front, action)
            ELSE LET i == CHOOSE k \in same : TRUE
                 IN IF SEVERITY_RANK(action.severity) > SEVERITY_RANK(front[i].severity)
                    THEN [front EXCEPT ![i] = action]
                    ELSE front

\* Position of an action type's value among the values, as strings compare
TypeOrder(action_type) ==
    IF action_type = MERGE_NODES THEN 1
    ELSE IF action_type = REORDER_NODES THEN 2
    ELSE IF action_type = RETARGET_RESOURCES THEN 3
    ELSE IF action_type = RETIME_NODE THEN 4
    ELSE IF action_type = REWIRE_PREREQS THEN 5
    ELSE IF action_type = REWRITE_NODE THEN 6
    ELSE 7

\* (item.node_id or "") compared as strings: "" is before every id
NodeIdLess(a, b) ==
    IF a = NoneId THEN b # NoneId
    ELSE IF b = NoneId THEN FALSE
    ELSE IdLess(a, b)

\* a sort key that puts the lowest severity first
PlanKeyLessAscending(a, b) ==
    \/ SEVERITY_RANK(a.severity) < SEVERITY_RANK(b.severity)
    \/ /\ SEVERITY_RANK(a.severity) = SEVERITY_RANK(b.severity)
       /\ \/ NodeIdLess(a.node_id, b.node_id)
          \/ a.node_id = b.node_id /\ TypeOrder(a.action_type) < TypeOrder(b.action_type)

\* The sort key of plan: (-SEVERITY_RANK, node_id or "", action_type.value)
PlanKeyLess(a, b) ==
    \/ SEVERITY_RANK(a.severity) > SEVERITY_RANK(b.severity)
    \/ /\ SEVERITY_RANK(a.severity) = SEVERITY_RANK(b.severity)
       /\ \/ NodeIdLess(a.node_id, b.node_id)
          \/ a.node_id = b.node_id /\ TypeOrder(a.action_type) < TypeOrder(b.action_type)

\* sorted(deduped.values(), key=...): stable
RECURSIVE SortedActions(_)
SortedActions(acts) ==
    IF acts = <<>> THEN <<>>
    ELSE LET front == SortedActions(SubSeq(acts, 1, Len(acts) - 1))
             x == acts[Len(acts)]
             keep == {i \in DOMAIN front : ~PlanKeyLess(x, front[i])}
             n == IF keep = {} THEN 0 ELSE MaxOfSet(keep)
         IN SubSeq(front, 1, n) \o <<x>> \o SubSeq(front, n + 1, Len(front))

\* a plan without the fallback of lines 78-85
plan_without_fallback(max_actions_per_iteration, rep, ped) ==
    Take(SortedActions(Deduped(ActionsFrom(rep.diagnostics) \o ActionsFrom(ped.diagnostics))),
         max_actions_per_iteration)

\* the score under which plan falls back to reorder_nodes
FallbackBelow == 85

\* RepairPlanner.plan
plan(max_actions_per_iteration, rep, ped) ==
    LET candidates == ActionsFrom(rep.diagnostics) \o ActionsFrom(ped.diagnostics)
        ordered == SortedActions(Deduped(candidates))
        selected == Take(ordered, max_actions_per_iteration)
    IN IF selected = <<>> /\ rep.total_score < FallbackBelow
       THEN <<RepairAction(REORDER_NODES, "low", NoneId)>>
       ELSE selected

-----------------------------------------------------------------------------
(* optimizer.py: LoopController.optimize.  The collaborators are the ones the
   controller was constructed with: in the world "internal" the shipped proposer,
   critic, judge, planner and executor; in the world "stub" arbitrary ones, where a
   draft is the record of what critic and judge find in it, the planner returns any
   tuple and the executor returns any draft; in the world "planner" the shipped
   planner among arbitrary others, the diagnostics of a draft being any the rules
   construct and the executor returning its draft as it is. *)

\* largest max_iterations of a policy
MaxIterations == 2

\* largest total_score a stub judge gives
MaxScore == 2

\* the drafts of the stub proposer and the stub executor
StubDrafts ==
    [total_score : 0..MaxScore, hard_fail_count : 0..1, min_quality_met : BOOLEAN]

\* target_score of default_model_policy
DefaultTargetScore == 82

\* most diagnostics of a stub report and its critique together
MaxDiagnostics == 2

\* most node ids the diagnostics of a stub report name
MaxPlanNodes == 2

\* largest max_actions_per_iteration of a planner
MaxActions == 2

\* the sequences over S of at most n entries
SeqsUpTo(S, n) == UNION {[1..k -> S] : k \in 0..n}

\* every diagnostic the rules of the judge construct, with the severity and hard_fail
\* the rule gives it; the last one is the critic's, which the judge repeats
JudgeDiagnostics ==
    {Diagnostic("structure.duplicate_node_ids", "critical", NoneId, TRUE),
     Diagnostic("structure.cycle", "critical", NoneId, TRUE),
     Diagnostic("atomicity.threshold", "critical", NoneId, TRUE),
     Diagnostic("progression.all_roots", "high", NoneId, FALSE),
     Diagnostic("progression.depth_too_shallow", "high", NoneId, FALSE),
     Diagnostic("resource.repetitive_anchor", "medium", NoneId, FALSE),
     Diagnostic("effort.flat_distribution", "medium", NoneId, FALSE),
     Diagnostic("effort.outlier", "low", NoneId, FALSE),
     Diagnostic("redundancy.title_repetition", "medium", NoneId, FALSE)}
    \cup UNION {{Diagnostic("structure.missing_prerequisite", "critical", n, TRUE),
                 Diagnostic("atomicity.compound_capability", "high", n, FALSE),
                 Diagnostic("resource.missing", "high", n, TRUE),
                 Diagnostic("resource.weak_relevance", "medium", n, FALSE),
                 Diagnostic("mastery.non_actionable_task", "high", n, TRUE),
                 Diagnostic("mastery.non_measurable_criteria", "high", n, TRUE),
                 Diagnostic("learner.hidden_prerequisite", "high", n, TRUE)} :
                   n \in 1..MaxPlanNodes}

\* every diagnostic the critic constructs
CriticDiagnostics ==
    UNION {{Diagnostic("learner.hidden_prerequisite", "high", n, FALSE),
            Diagnostic("learner.prerequisite_overload", "medium", n, FALSE),
            Diagnostic("learner.concept_jump", "medium", n, FALSE),
            Diagnostic("learner.workload_jump", "medium", n, FALSE)} :
              n \in 1..MaxPlanNodes}

\* the drafts of the world "planner": what the critic and the judge find in the draft
PlannerDrafts ==
    {d \in [total_score : {FallbackBelow - 1, FallbackBelow},
            diagnostics : SeqsUpTo(JudgeDiagnostics, MaxDiagnostics),
            critic_diagnostics : SeqsUpTo(CriticDiagnostics, MaxDiagnostics)] :
        Len(d.diagnostics) + Len(d.critic_diagnostics) <= MaxDiagnostics}

\* the action tuples of the stub planner
StubPlans == {<<>>, <<RepairAction(REWRITE_NODE, "high", 1)>>}

\* a GenerationSpec that plans n nodes
ExecSpec(n) ==
    [topic_label |-> "goal",
     evidence_mode |-> "standard",
     strict_mode |-> FALSE,
     target_nodes |-> n,
     max_prerequisites_per_node |-> 3,
     titles |-> [i \in 1..n |-> <<"planned", ToString(i)>>],
     minutes |-> [i \in 1..n |-> 10 * i],
     misconceptions |-> <<>>,
     required_outcomes |-> 0,
     local_paths |-> 0]

\* a node "N<id>" whose content tells it from every other node; compound: title and
\* capability name two things
ExecNode(id, compound) ==
    LET title == <<"subject", ToString(id)>>
                 \o (IF compound THEN <<"and", "extras">> ELSE <<>>)
    IN [id |-> id,
        title |-> title,
        capability |-> <<"implement">> \o title,
        prerequisites |-> IF id > 1 THEN <<id - 1>> ELSE <<>>,
        core_ideas |-> node_core_ideas(title, APPLICATION),
        pitfalls |-> <<APPLICATION, "familiarity">>,
        mastery_check |-> node_mastery(id, title, APPLICATION, ExecSpec(1)),
        estimate_minutes |-> 30 * id,
        resources |-> <<id>>]

\* most nodes of a proposed curriculum
MaxJudgeNodes == 4

\* node "N<id>" with or without the node before it as prerequisite
JudgeNode(id, compound, linked) ==
    [ExecNode(id, compound) EXCEPT !.prerequisites = IF linked THEN <<id - 1>> ELSE <<>>]

\* wide and flat curricula: one or two nodes more than MaxJudgeNodes, none with a
\* prerequisite, the first one atomic or compound, listed in the order of their ids or
\* in the opposite order; and one whose last two nodes carry the resources of the first
\* nodes, as retargeting leaves them
WideCurricula ==
    {[topic |-> "goal", has_nodes |-> TRUE, open_questions |-> <<>>,
      nodes |-> [i \in 1..n |->
                   JudgeNode(IF down THEN n + 1 - i ELSE i,
                             c /\ i = (IF down THEN n ELSE 1), FALSE)]] :
        n \in {MaxJudgeNodes + 1, MaxJudgeNodes + 2}, c \in BOOLEAN, down \in BOOLEAN}
    \cup {[topic |-> "goal", has_nodes |-> TRUE, open_questions |-> <<>>,
            nodes |-> [i \in 1..(MaxJudgeNodes + 1) |->
                         IF i < MaxJudgeNodes THEN JudgeNode(i, FALSE, FALSE)
                         ELSE [JudgeNode(i, FALSE, FALSE) EXCEPT
                                 !.resources = <<i + 1 - MaxJudgeNodes,
                                                 i + 2 - MaxJudgeNodes>>]]]}

\* a curriculum of two nodes with the same id, the first of which names that id as
\* its prerequisite
TwinCurricula ==
    {[topic |-> "goal", has_nodes |-> TRUE, open_questions |-> <<>>,
      nodes |-> <<[JudgeNode(3, TRUE, FALSE) EXCEPT !.id = 1, !.prerequisites = <<1>>],
                  JudgeNode(1, FALSE, FALSE)>>]}

\* the curricula of the proposer: nodes N1..Nn, each atomic or compound, each but the
\* first a root or a successor of the node before it; an external proposer's list can
\* end with an entry that is not a mapping
JudgeCurricula ==
    {[topic |-> "goal", has_nodes |-> TRUE, open_questions |-> <<>>,
      nodes |-> [i \in 1..n |-> JudgeNode(i, i \in compound, i \in linked)] \o tail] :
        n \in (0..MaxJudgeNodes), compound \in SUBSET (1..MaxJudgeNodes),
        linked \in SUBSET (2..MaxJudgeNodes), tail \in {<<>>, <<Junk>>}}
    \cup WideCurricula \cup TwinCurricula

\* self._proposer.propose(spec, resolver, policy)
Propose(w, spec, r) ==
    IF w = "stub" THEN StubDrafts
    ELSE IF w = "planner" THEN PlannerDrafts
    ELSE IF w = "judge" THEN JudgeCurricula
    ELSE {propose(spec, r)}

\* self._critic.critique(draft, spec.topic_spec, policy)
Critique(w, d) ==
    IF w = "stub"
    THEN [score |-> 0, min_quality_met |-> d.min_quality_met, diagnostics |-> <<>>]
    ELSE IF w = "planner"
    THEN [score |-> 0,
          min_quality_met |-> CountSeverity(d.critic_diagnostics, {"high", "critical"}) = 0,
          diagnostics |-> d.critic_diagnostics]
    ELSE critique(d)

\* self._judge.evaluate(draft, spec.topic_spec, pedagogy)
Evaluate(w, d, r, ped) ==
    IF w = "stub"
    THEN {[total_score |-> d.total_score, hard_fail_count |-> d.hard_fail_count,
           diagnostics |-> <<>>]}
    ELSE IF w = "planner"
    THEN {[total_score |-> d.total_score,
           hard_fail_count |-> Len(SelectSeq(d.diagnostics, LAMBDA x : x.hard_fail)),
           diagnostics |-> d.diagnostics]}
    ELSE evaluate(d, r, ped)

\* self._planner.plan(report, pedagogy)
Plan(w, p, rep, ped) ==
    IF w = "stub" THEN StubPlans ELSE {plan(p.max_actions_per_iteration, rep, ped)}

\* self._repair.apply(draft, actions, spec, resolver, policy)
Repair(w, d, acts, spec, r) ==
    IF w = "stub" THEN StubDrafts
    ELSE IF w = "planner" THEN {d}
    ELSE {apply(d, acts, spec, r)}

\* a loop whose range runs one round too far
LoopRangeOneMore(p) == 1..(p.max_iterations + 1)

\* range(1, policy.max_iterations + 1) of line 55
LoopRange(p) == 1..p.max_iterations

\* a best that an equal score replaces
ShouldUpdateBestOnTie(rep, score) == rep.total_score >= score

\* a best that every draft replaces
ShouldUpdateBestAlways(rep, score) == TRUE

\* optimizer.py line 59
ShouldUpdateBest(rep, score) == rep.total_score > score

\* an acceptance test that forgets the critic
AcceptanceMetNoCritic(rep, p, ped) ==
    /\ rep.hard_fail_count = 0
    /\ rep.total_score >= p.target_score

\* optimizer.py line 80
AcceptanceMet(rep, p, ped) ==
    /\ rep.hard_fail_count = 0
    /\ rep.total_score >= p.target_score
    /\ ped.min_quality_met

\* a trace entry that records the actions only of a draft that is not accepted
IterationTraceApplied(k, ped, rep, acts) ==
    [iteration |-> k,
     pedagogy_summary |-> [min_quality_met |-> ped.min_quality_met],
     score_summary |-> [total_score |-> rep.total_score,
                        hard_fail_count |-> rep.hard_fail_count],
     selected_actions |-> IF rep.hard_fail_count = 0 /\ ped.min_quality_met THEN <<>> ELSE acts]

\* IterationTrace (model_policy, learner_path_diagnostics and post_score_summary repeat
\* the policy and the report)
IterationTrace(k, ped, rep, acts) ==
    [iteration |-> k,
     pedagogy_summary |-> [min_quality_met |-> ped.min_quality_met],
     score_summary |-> [total_score |-> rep.total_score,
                        hard_fail_count |-> rep.hard_fail_count],
     selected_actions |-> acts]

\* OptimizationTrace
OptimizationTrace(reason, traces, score, acc) ==
    [stop_reason |-> reason, iterations |-> traces, best_score |-> score, accepted |-> acc]

\* optimize before its first line
InitLocals ==
    /\ pc = "propose"
    /\ draft = NoResult
    /\ best = NoResult
    /\ best_score = -1
    /\ accepted = FALSE
    /\ stop_reason = "max_iterations_reached"
    /\ iterations = <<>>
    /\ iteration = 1
    /\ pedagogy = NoResult
    /\ report = NoResult
    /\ actions = <<>>
    /\ judged = <<>>
    /\ rounded = {}
    /\ repairs = <<>>
    /\ result = NoResult

\* lines 48-53
DoPropose ==
    /\ pc = "propose"
    /\ \E d \in Propose(world, gspec, resolver) :
          /\ draft' = d
          /\ best' = d
    /\ best_score' = -1
    /\ accepted' = FALSE
    /\ stop_reason' = "max_iterations_reached"
    /\ iterations' = <<>>
    /\ iteration' = 1
    /\ pc' = "loop"
    /\ UNCHANGED <<env_vars, pedagogy, report, actions, judged, rounded,
                   repairs, result, exec_vars, minutes_vars, dag_vars, llm_vars, run_vars>>

\* weighted_total is a function: the dimension tuple of a report, with the total it was
\* rounded to
Rounds(rep) ==
    IF "dimensions" \in DOMAIN rep THEN {<<rep.dimensions, rep.total_score>>} ELSE {}

\* the report agrees with every total already rounded from its dimension tuple
Repeats(rep, seen) ==
    \A pair \in seen : \A mine \in Rounds(rep) : pair[1] = mine[1] => pair[2] = mine[2]

\* lines 55-78: one critique/judge round, up to the trace entry
JudgeRound ==
    /\ pc = "loop"
    /\ iteration \in LoopRange(policy)
    /\ LET ped == Critique(world, draft)
       IN \E rep \in Evaluate(world, draft, resolver, ped) :
          /\ Repeats(rep, rounded)
          /\ rounded' = rounded \cup Rounds(rep)
          /\ pedagogy' = ped
          /\ report' = rep
          /\ best' = IF ShouldUpdateBest(rep, best_score) THEN draft ELSE best
          /\ best_score' = IF ShouldUpdateBest(rep, best_score) THEN rep.total_score
                           ELSE best_score
          /\ \E acts \in Plan(world, policy, rep, ped) :
                /\ actions' = acts
                /\ iterations' = Append(iterations, IterationTrace(iteration, ped, rep, acts))
    /\ judged' = Append(judged, draft)
    /\ pc' = "decide"
    /\ UNCHANGED <<env_vars, draft, accepted, stop_reason, iteration,
                   repairs, result, exec_vars, minutes_vars, dag_vars, llm_vars, run_vars>>

\* lines 80-83
Accept ==
    /\ pc = "decide"
    /\ AcceptanceMet(report, policy, pedagogy)
    /\ accepted' = TRUE
    /\ stop_reason' = "accepted_threshold_met"
    /\ pc' = "return"
    /\ UNCHANGED <<env_vars, draft, best, best_score, iterations,
                   iteration, pedagogy, report, actions, judged, rounded, repairs, result,
                   exec_vars, minutes_vars, dag_vars, llm_vars, run_vars>>

\* a loop that stops without actions and does not say so
StopNoActionsSilent ==
    /\ pc = "decide"
    /\ ~AcceptanceMet(report, policy, pedagogy)
    /\ actions = <<>>
    /\ pc' = "return"
    /\ UNCHANGED <<env_vars, draft, best, best_score, accepted,
                   stop_reason, iterations, iteration, pedagogy, report, actions, judged, rounded,
                   repairs, result, exec_vars, minutes_vars, dag_vars, llm_vars, run_vars>>

\* lines 85-87
StopNoActions ==
    /\ pc = "decide"
    /\ ~AcceptanceMet(report, policy, pedagogy)
    /\ actions = <<>>
    /\ stop_reason' = "no_actions_available"
    /\ pc' = "return"
    /\ UNCHANGED <<env_vars, draft, best, best_score, accepted,
                   iterations, iteration, pedagogy, report, actions, judged, rounded, repairs,
                   result, exec_vars, minutes_vars, dag_vars, llm_vars, run_vars>>

\* line 89, and the step of the for loop; an executor that raises ends optimize
DoRepair ==
    /\ pc = "decide"
    /\ ~AcceptanceMet(report, policy, pedagogy)
    /\ actions # <<>>
    /\ \E d \in Repair(world, draft, actions, gspec, resolver) :
          /\ draft' = d
          /\ pc' = IF d = Raised THEN "raised" ELSE "loop"
    /\ repairs' = Append(repairs, actions)
    /\ iteration' = iteration + 1
    /\ UNCHANGED <<env_vars, best, best_score, accepted, stop_reason,
                   iterations, pedagogy, report, actions, judged, rounded, result,
                   exec_vars, minutes_vars, dag_vars, llm_vars, run_vars>>

\* the for loop of line 55 is exhausted
Exhaust ==
    /\ pc = "loop"
    /\ iteration \notin LoopRange(policy)
    /\ pc' = "return"
    /\ UNCHANGED <<env_vars, loop_vars, exec_vars, minutes_vars, dag_vars, llm_vars, run_vars>>

\* lines 91-98
Return ==
    /\ pc = "return"
    /\ result' = [curriculum |-> best,
                  trace |-> OptimizationTrace(stop_reason, iterations,
                                              Max(0, best_score), accepted)]
    /\ pc' = "done"
    /\ UNCHANGED <<env_vars, draft, best, best_score, accepted,
                   stop_reason, iterations, iteration, pedagogy, report, actions, judged, rounded,
                   repairs, exec_vars, minutes_vars, dag_vars, llm_vars, run_vars>>

\* the variables of the other specifications, at rest
ExecAtRest == exec_in = NoResult /\ exec_actions = <<>> /\ exec_out = NoResult

MinutesAtRest == total_minutes = 0 /\ minutes = <<>>

DagAtRest == dag_nodes = <<>> /\ dag_out = NoResult

RunAtRest ==
    /\ run_files = NoResult
    /\ run_clock = 0
    /\ run_meta = NoResult
    /\ run_json = NoResult
    /\ run_cmd = NoResult
    /\ run_call = NoResult

LlmAtRest ==
    llm_calls = <<>> /\ llm_runs = <<>> /\ llm_response = NoResult /\ llm_client = NoResult

\* a controller constructed with arbitrary collaborators, and its policy
Init ==
    /\ world = "stub"
    /\ topic = NoResult
    /\ titles = <<>>
    /\ gspec = NoResult
    /\ resolver = NoResult
    /\ policy \in [max_iterations : 0..MaxIterations,
                   max_actions_per_iteration : {1},
                   target_score : 1..MaxScore]
    /\ InitLocals
    /\ ExecAtRest
    /\ MinutesAtRest
    /\ DagAtRest
    /\ LlmAtRest
    /\ RunAtRest

Next == DoPropose \/ JudgeRound \/ Accept \/ StopNoActions \/ DoRepair \/ Exhaust \/ Return

Spec == Init /\ [][Next]_vars

\* optimize is run to its end
SpecLive == Spec /\ WF_vars(Next)

\* the action type the specification's table gives a rule id of the listed families
ListedAction(rule_id) ==
    IF rule_id \in {"atomicity.compound_capability", "atomicity.threshold",
                    "redundancy.title_repetition", "learner.concept_jump"}
    THEN REWRITE_NODE
    ELSE IF rule_id \in {"progression.all_roots", "progression.depth_too_shallow",
                         "learner.hidden_prerequisite", "learner.prerequisite_overload"}
    THEN REWIRE_PREREQS
    ELSE IF rule_id \in {"resource.missing", "resource.weak_relevance",
                         "resource.repetitive_anchor"}
    THEN RETARGET_RESOURCES
    ELSE IF rule_id \in {"effort.flat_distribution", "effort.outlier",
                         "learner.workload_jump"}
    THEN RETIME_NODE
    ELSE NoAction

\* C13 as stated: every diagnostic of the families atomicity, progression, resource,
\* effort, redundancy and learner gives plan a candidate of the listed action type for
\* its node: when the limit cuts nothing off, the returned tuple has such an action.
C13_AsStated ==
    pc = "decide" =>
        LET found == report.diagnostics \o pedagogy.diagnostics
        IN Len(found) <= policy.max_actions_per_iteration =>
              \A i \in DOMAIN found :
                 ListedAction(found[i].rule_id) # NoAction =>
                    \E k \in DOMAIN actions :
                       /\ actions[k].action_type = ListedAction(found[i].rule_id)
                       /\ actions[k].node_id = found[i].node_id

\* the candidates of the last call of plan
Candidates == ActionsFrom(report.diagnostics) \o ActionsFrom(pedagogy.diagnostics)

SameKey(a, b) == a.action_type = b.action_type /\ a.node_id = b.node_id

\* the returned tuple has one action per (action_type, node_id), each of the highest
\* severity of the candidates with its key, in the order severity descending, node_id
\* ascending, action type ascending
DedupedAndSorted ==
    /\ \A i, j \in DOMAIN actions : i # j => ~SameKey(actions[i], actions[j])
    /\ \A i \in DOMAIN actions : \A k \in DOMAIN Candidates :
          SameKey(actions[i], Candidates[k]) =>
             /\ SEVERITY_RANK(actions[i].severity) >= SEVERITY_RANK(Candidates[k].severity)
             /\ \E m \in DOMAIN Candidates :
                   SameKey(actions[i], Candidates[m])
                      /\ Candidates[m].severity = actions[i].severity
    /\ \A i, j \in DOMAIN actions : i < j =>
          \/ SEVERITY_RANK(actions[i].severity) > SEVERITY_RANK(actions[j].severity)
          \/ /\ actions[i].severity = actions[j].severity
             /\ \/ NodeIdLess(actions[i].node_id, actions[j].node_id)
                \/ /\ actions[i].node_id = actions[j].node_id
                   /\ TypeOrder(actions[i].action_type) < TypeOrder(actions[j].action_type)

\* C14 as stated: the tuple plan returns is deduplicated and sorted, and its length
\* never exceeds max_actions_per_iteration.
C14_AsStated ==
    pc = "decide" =>
        DedupedAndSorted /\ Len(actions) <= policy.max_actions_per_iteration

\* C14, amended: the tuple plan returns is deduplicated and sorted; with
\* max_actions_per_iteration >= 1 its length never exceeds max_actions_per_iteration,
\* and with max_actions_per_iteration = 0 it is empty when total_score >= 85 and the
\* one fallback reorder_nodes action when total_score < 85.
C14_PlanShape ==
    pc = "decide" =>
        /\ DedupedAndSorted
        /\ policy.max_actions_per_iteration >= 1 =>
              Len(actions) <= policy.max_actions_per_iteration
        /\ policy.max_actions_per_iteration = 0 =>
              actions = IF report.total_score < 85
                        THEN <<RepairAction(REORDER_NODES, "low", NoneId)>>
                        ELSE <<>>

\* plan was called with duplicate keys of different severity among the candidates
\* and with more keys than the limit lets through
C14_Witness ==
    /\ pc = "decide"
    /\ policy.max_actions_per_iteration = 1
    /\ Len(actions) = 1
    /\ \E k, m \in DOMAIN Candidates :
          /\ ~SameKey(Candidates[k], Candidates[m])
          /\ SEVERITY_RANK(Candidates[k].severity) > SEVERITY_RANK(Candidates[m].severity)
          /\ actions[1] = Candidates[k]

\* C15: whenever total_score < 85 plan returns a non-empty tuple; when no diagnostic
\* maps to an action and total_score < 85 it returns exactly one reorder_nodes action
\* of low severity without node_id; so a run stops with "no_actions_available" only in
\* an iteration whose total_score is at least 85.
C15_ForwardProgress ==
    /\ pc = "decide" =>
          /\ report.total_score < 85 => actions # <<>>
          /\ (report.total_score < 85 /\ Candidates = <<>>) =>
                actions = <<RepairAction(REORDER_NODES, "low", NoneId)>>
    /\ stop_reason = "no_actions_available" =>
          /\ iterations # <<>>
          /\ iterations[Len(iterations)].score_summary.total_score >= 85
          /\ iterations[Len(iterations)].selected_actions = <<>>

\* plan was called with a score under 85 and diagnostics none of which maps to an action
C15_Witness ==
    /\ pc = "decide"
    /\ report.total_score < 85
    /\ report.diagnostics # <<>>
    /\ Candidates = <<>>
    /\ policy.max_actions_per_iteration >= 1
    /\ actions = <<RepairAction(REORDER_NODES, "low", NoneId)>>

\* a controller constructed with the shipped planner among arbitrary collaborators
InitPlanner ==
    /\ world = "planner"
    /\ topic = NoResult
    /\ titles = <<>>
    /\ gspec = NoResult
    /\ resolver = NoResult
    /\ policy \in [max_iterations : {1},
                   max_actions_per_iteration : 0..MaxActions,
                   target_score : {DefaultTargetScore}]
    /\ InitLocals
    /\ ExecAtRest
    /\ MinutesAtRest
    /\ DagAtRest
    /\ LlmAtRest
    /\ RunAtRest

SpecPlanner == InitPlanner /\ [][Next]_vars

-----------------------------------------------------------------------------
(* Properties of LoopController.optimize *)

\* the acceptance condition, read from the trace entry of round i
MetInRound(i) ==
    /\ iterations[i].score_summary.hard_fail_count = 0
    /\ iterations[i].score_summary.total_score >= policy.target_score
    /\ iterations[i].pedagogy_summary.min_quality_met

\* the scores the judge can give a curriculum when it is judged again
Rejudged(curriculum) ==
    {rep.total_score :
        rep \in Evaluate(world, curriculum, resolver, Critique(world, curriculum))}

C2_AcceptIffFirstMet ==
    pc = "done" =>
        LET k == Len(iterations)
        IN /\ result.trace.accepted <=> (k >= 1 /\ MetInRound(k))
           /\ result.trace.accepted
                 <=> result.trace.stop_reason = "accepted_threshold_met"
           /\ \A i \in 1..(k - 1) : ~MetInRound(i)
           /\ result.trace.accepted => Len(repairs) = k - 1

\* C2 witness: accepted in the second round
C2_Witness ==
    /\ pc = "done"
    /\ result.trace.accepted
    /\ Len(iterations) = 2
    /\ Len(repairs) = 1

\* C3: for max_iterations >= 1, trace.best_score is the largest total_score of the
\* judged rounds and the returned curriculum is the draft judged in the earliest round
\* with that score.
C3_BestIsEarliestMax ==
    (pc = "done" /\ policy.max_iterations >= 1) =>
        LET scores == [i \in DOMAIN iterations |-> iterations[i].score_summary.total_score]
            top == MaxOfSet(Range(scores))
            first == CHOOSE i \in DOMAIN scores :
                        scores[i] = top /\ \A j \in 1..(i - 1) : scores[j] < top
        IN /\ result.trace.best_score = top
           /\ result.curriculum = judged[first]

\* C3 witness: two rounds judged different drafts that have the same, largest score
C3_Witness ==
    /\ pc = "done"
    /\ Len(judged) = 2
    /\ judged[1] # judged[2]
    /\ judged[1].total_score = judged[2].total_score
    /\ result.curriculum = judged[1]

\* C4: for max_iterations >= 1, the returned curriculum, judged again, scores at least
\* what the first draft scored.
C4_MonotonicImprovement ==
    (pc = "done" /\ policy.max_iterations >= 1) =>
        \A score \in Rejudged(result.curriculum) :
            score >= iterations[1].score_summary.total_score

\* C4 witness: the repair made the draft worse and the first draft is returned
C4_Witness ==
    /\ pc = "done"
    /\ Len(judged) = 2
    /\ judged[2].total_score < judged[1].total_score
    /\ Rejudged(result.curriculum) = {judged[1].total_score}

\* C5: the stop reason classifies the run, and best is what is returned.
C5_StopReason ==
    pc = "done" =>
        LET k == Len(iterations)
            reason == result.trace.stop_reason
        IN /\ reason = "no_actions_available"
                 <=> (k >= 1 /\ ~MetInRound(k) /\ iterations[k].selected_actions = <<>>)
           /\ reason = "max_iterations_reached"
                 <=> /\ k = policy.max_iterations
                     /\ \A i \in 1..k : /\ ~MetInRound(i)
                                        /\ iterations[i].selected_actions # <<>>
           /\ reason = "accepted_threshold_met" <=> result.trace.accepted
           /\ reason \in {"no_actions_available", "max_iterations_reached",
                          "accepted_threshold_met"}
           /\ result.curriculum = best

\* C5 witness: the last of max_iterations rounds was not accepted and had no actions
C5_Witness ==
    /\ pc = "done"
    /\ policy.max_iterations = 2
    /\ Len(iterations) = 2
    /\ result.trace.stop_reason = "no_actions_available"

-----------------------------------------------------------------------------
(* planning/spec.py called on its own: distribute_minutes with any total and any
   titles, target_minutes with any hour range *)

\* longest title tuple
MaxTitles == 3

\* largest total_minutes given to distribute_minutes
MaxTotalMinutes == 75

\* largest total_hours_min and total_hours_max, in quarters of an hour
MaxQuarterHours == 4

\* titles without and with keywords of _title_weight
TitlePool == {<<"basics">>, <<"integration", "testing">>, <<"deliverable", "1">>}

TitleTuples == UNION {[1..n -> TitlePool] : n \in 1..MaxTitles}

InitMinutes ==
    /\ world = "minutes"
    /\ pc = "call"
    /\ topic \in [quarter_hours_min : 0..MaxQuarterHours,
                  quarter_hours_max : 0..MaxQuarterHours]
    /\ titles \in TitleTuples
    /\ gspec = NoResult
    /\ policy = NoResult
    /\ resolver = NoResult
    /\ draft = NoResult
    /\ best = NoResult
    /\ best_score = -1
    /\ accepted = FALSE
    /\ stop_reason = ""
    /\ iterations = <<>>
    /\ iteration = 0
    /\ pedagogy = NoResult
    /\ report = NoResult
    /\ actions = <<>>
    /\ judged = <<>>
    /\ rounded = {}
    /\ repairs = <<>>
    /\ result = NoResult
    /\ ExecAtRest
    /\ MinutesAtRest
    /\ DagAtRest
    /\ LlmAtRest
    /\ RunAtRest

\* distribute_minutes(total_minutes, titles)
CallDistributeMinutes ==
    /\ pc = "call"
    /\ \E total \in 0..MaxTotalMinutes :
          /\ total_minutes' = total
          /\ minutes' \in distribute_minutes(total, titles)
    /\ pc' = "distributed"
    /\ UNCHANGED <<env_vars, loop_vars, exec_vars, dag_vars, llm_vars, run_vars>>

\* target_minutes(topic_spec, titles)
CallTargetMinutes ==
    /\ pc = "call"
    /\ total_minutes' = TotalMinutes(topic)
    /\ minutes' \in target_minutes(topic, titles)
    /\ pc' = "targeted"
    /\ UNCHANGED <<env_vars, loop_vars, exec_vars, dag_vars, llm_vars, run_vars>>

NextMinutes == CallDistributeMinutes \/ CallTargetMinutes

SpecMinutes == InitMinutes /\ [][NextMinutes]_vars

\* one non-negative integer per title, and the sum is the total
Conserved ==
    /\ Len(minutes) = Len(titles)
    /\ \A i \in DOMAIN minutes : minutes[i] >= 0
    /\ SumSeq(minutes) = total_minutes

C8_TieWitness ==
    /\ pc = "distributed"
    /\ Cardinality(distribute_minutes(total_minutes, titles)) > 1

-----------------------------------------------------------------------------
(* repair_executor.py called on its own: apply with any curriculum mapping (node
   lists in any order, with repeated ids, with entries that are no mappings, or
   without a "nodes" key) and any action tuple *)

\* most entries of a node list given to apply, and the largest node number
MaxExecNodes == 2

\* longest action tuple given to apply
MaxExecActions == 1

\* the entries a node list is made of
ExecEntries == {ExecNode(id, c) : id \in 1..MaxExecNodes, c \in BOOLEAN} \cup {Junk}

\* the curriculum mappings given to apply
ExecCurricula ==
    {[topic |-> "goal", has_nodes |-> TRUE, nodes |-> ns, open_questions |-> <<>>] :
        ns \in UNION {[1..n -> ExecEntries] : n \in 0..MaxExecNodes}}
    \cup {[topic |-> "goal", has_nodes |-> FALSE, nodes |-> <<>>, open_questions |-> <<>>]}

TargetedTypes == {REWRITE_NODE, REWIRE_PREREQS, RETARGET_RESOURCES, RETIME_NODE}

\* the actions given to apply: node ids of the list, one beyond it, and none
ExecActions ==
    {RepairAction(t, "high", n) :
        t \in TargetedTypes, n \in {NoneId} \cup (1..(MaxExecNodes + 1))}
    \cup {RepairAction(REORDER_NODES, "low", NoneId)}

\* a generation spec of one node with four hours to spend: distribute_minutes gives
\* the node all of them
LongSpec ==
    [ExecSpec(1) EXCEPT
        !.minutes = CHOOSE m \in distribute_minutes(240, ExecSpec(1).titles) : TRUE]

InitExec ==
    /\ world = "exec"
    /\ pc = "call"
    /\ topic = NoResult
    /\ titles = <<>>
    /\ gspec \in {ExecSpec(1), ExecSpec(MaxExecNodes), LongSpec}
    /\ policy = NoResult
    /\ resolver = [kind |-> "deterministic", pool |-> 3, relevant |-> {1, 2, 3}]
    /\ draft = NoResult
    /\ best = NoResult
    /\ best_score = -1
    /\ accepted = FALSE
    /\ stop_reason = ""
    /\ iterations = <<>>
    /\ iteration = 0
    /\ pedagogy = NoResult
    /\ report = NoResult
    /\ actions = <<>>
    /\ judged = <<>>
    /\ rounded = {}
    /\ repairs = <<>>
    /\ result = NoResult
    /\ exec_in \in ExecCurricula
    /\ exec_actions \in UNION {[1..n -> ExecActions] : n \in 0..MaxExecActions}
    /\ exec_out = NoResult
    /\ MinutesAtRest
    /\ DagAtRest
    /\ LlmAtRest
    /\ RunAtRest

\* LLMRepairExecutor.apply(curriculum, actions, spec, resolver)
CallApply ==
    /\ pc = "call"
    /\ exec_out' = apply(exec_in, exec_actions, gspec, resolver)
    /\ pc' = "applied"
    /\ UNCHANGED <<env_vars, loop_vars, exec_in, exec_actions, minutes_vars, dag_vars, llm_vars, run_vars>>

NextExec == CallApply

SpecExec == InitExec /\ [][NextExec]_vars

WrittenKeys(action_type) ==
    IF action_type = REWRITE_NODE
    THEN {"title", "capability", "core_ideas", "pitfalls", "mastery_check"}
    ELSE IF action_type = REWIRE_PREREQS THEN {"prerequisites"}
    ELSE IF action_type = RETARGET_RESOURCES THEN {"resources"}
    ELSE IF action_type = RETIME_NODE THEN {"estimate_minutes"}
    ELSE {}

\* C10 as stated: whatever the order of the node list, a rewrite_node, rewire_prereqs,
\* retarget_resources or retime_node action with node_id = X changes at most the node
\* whose id is X, builds the new content from that node's own fields (what the action
\* does not write is kept), and leaves every other node and the topic unchanged.
C10_AsStated ==
    (/\ pc = "applied"
     /\ Len(exec_actions) = 1
     /\ exec_actions[1].action_type \in TargetedTypes
     /\ exec_actions[1].node_id # NoneId
     /\ exec_out # Raised) =>
        LET before == DictItems(GetNodes(exec_in))
            after == exec_out.nodes
            X == exec_actions[1].node_id
        IN /\ exec_out.topic = exec_in.topic
           /\ Len(after) = Len(before)
           /\ \A i \in DOMAIN before :
                 IF before[i].id # X THEN after[i] = before[i]
                 ELSE \A key \in DOMAIN before[i] \ WrittenKeys(exec_actions[1].action_type) :
                         after[i][key] = before[i][key]

\* the action names a node the list does not have: no entry has the id, or the position
\* the id's number gives is beyond the list
TargetMissing(nodes, action) ==
    /\ action.action_type \in TargetedTypes
    /\ action.node_id # NoneId
    /\ \/ \A i \in DOMAIN nodes : nodes[i].id # action.node_id
       \/ _id_to_index(action.node_id) >= Len(nodes)

\* C11 as stated: an action whose target does not exist is skipped: apply does not
\* raise for it, and it returns what it returns for the other actions of the call alone.
C11_AsStated ==
    pc = "applied" =>
        LET nodes == DictItems(GetNodes(exec_in))
            others == SelectSeq(exec_actions, LAMBDA a : ~TargetMissing(nodes, a))
        IN (others # exec_actions /\ apply(exec_in, others, gspec, resolver) # Raised)
              => exec_out = apply(exec_in, others, gspec, resolver)

\* the estimates of the prerequisites of a node that are nodes of the list
PrereqEstimates(nodes, node) ==
    {nodes[j].estimate_minutes : j \in {k \in DOMAIN nodes : nodes[k].id \in Range(node.prerequisites)}}

\* C12 as stated: retime_node on a node that has a prerequisite with an estimate sets the
\* node's estimate_minutes to min(220, max(base, P + 10)), P the largest estimate of its
\* prerequisites and base the minutes the spec allots to the node's index (90 beyond
\* the allotted ones).
C12_AsStated ==
    (/\ pc = "applied"
     /\ Len(exec_actions) = 1
     /\ exec_actions[1].action_type = RETIME_NODE
     /\ exec_actions[1].node_id # NoneId
     /\ exec_in.has_nodes
     /\ \A i \in DOMAIN exec_in.nodes : IsDict(exec_in.nodes[i])
     /\ \A i, j \in DOMAIN exec_in.nodes : i # j => exec_in.nodes[i].id # exec_in.nodes[j].id) =>
        LET before == exec_in.nodes
            X == exec_actions[1].node_id
            index == X - 1
            base == IF index < Len(gspec.minutes) THEN gspec.minutes[index + 1] ELSE 90
        IN \A i \in DOMAIN before :
              (before[i].id = X /\ PrereqEstimates(before, before[i]) # {}) =>
                 /\ exec_out # Raised
                 /\ exec_out.nodes[i].id = X
                 /\ exec_out.nodes[i].estimate_minutes
                       = Min(220, Max(base, MaxOfSet(PrereqEstimates(before, before[i])) + 10))

-----------------------------------------------------------------------------
(* The generation pipeline with the internal provider: build_generation_spec, then
   optimize with the shipped proposer, critic, judge, planner and executor. *)

\* largest node count a topic spec asks for
MaxNodes == 6

\* the topic specs given to the pipeline: no node count (8 nodes are planned), or the
\* same least and largest node count, up to MaxNodes or so large that the ids have two
\* digits; a short and a long course
TopicSpecs ==
    {[node_count_min |-> n,
      node_count_max |-> n,
      scope_in |-> scope,
      has_prerequisites |-> TRUE,
      quarter_hours_min |-> hours[1],
      quarter_hours_max |-> hours[2],
      max_prerequisites_per_node |-> m,
      evidence_mode |-> mode,
      misconceptions |-> <<>>,
      required_outcomes |-> 0,
      local_paths |-> 0] :
        n \in (0..MaxNodes) \cup {MaxNodes + 4},
        scope \in {<<>>, << <<"data", "pipelines">>,
                             <<"model", "training", "and", "tuning">> >>},
        hours \in {<<4, 8>>, <<32, 160>>},
        m \in {0, 1, 2},
        mode \in {"minimal", "strict"}}

\* the resolvers given to the pipeline: the deterministic one over a pool whose urls do
\* or do not share a token with the topic, and one that finds nothing
Resolvers ==
    {[kind |-> "deterministic", pool |-> 3, relevant |-> {1, 2, 3}],
     [kind |-> "deterministic", pool |-> 2, relevant |-> {}],
     [kind |-> "empty", pool |-> 0, relevant |-> {}]}

\* the policies given to the pipeline: the default target score or one no draft
\* reaches; no action, one, the default four, or every planned action per round
Policies ==
    [max_iterations : 0..MaxIterations,
     max_actions_per_iteration : {0, 1, 4, 16},
     target_score : {DefaultTargetScore, 101}]

InitInternal ==
    /\ world = "internal"
    /\ topic \in TopicSpecs
    /\ titles = <<>>
    /\ gspec \in build_generation_spec(topic)
    /\ resolver \in Resolvers
    /\ policy \in Policies
    /\ InitLocals
    /\ ExecAtRest
    /\ MinutesAtRest
    /\ DagAtRest
    /\ LlmAtRest
    /\ RunAtRest

SpecInternal == InitInternal /\ [][Next]_vars

\* the curriculum is a valid DAG: every entry of its node list is a node, the ids are
\* pairwise distinct, every prerequisite is the id of another node of the list, and
\* topological_order emits every node
ValidDag(curriculum) ==
    LET nodes == GetNodes(curriculum)
        ids == {nodes[i].id : i \in DOMAIN nodes}
    IN /\ \A i \in DOMAIN nodes : IsDict(nodes[i])
       /\ \A i, j \in DOMAIN nodes : i # j => nodes[i].id # nodes[j].id
       /\ \A i \in DOMAIN nodes : \A p \in Range(nodes[i].prerequisites) :
             p # nodes[i].id /\ p \in ids
       /\ Len(topological_order(nodes, FALSE)) = Len(nodes)

\* C6: with the internal provider every curriculum of the run is a valid DAG: the
\* proposer's draft, every draft the executor returns for the actions the planner
\* selected (the executor does not raise), the best draft and the curriculum returned.
C6_ValidDag ==
    /\ pc # "raised"
    /\ pc # "propose" => ValidDag(draft) /\ ValidDag(best)
    /\ \A i \in DOMAIN judged : ValidDag(judged[i])
    /\ pc = "done" => ValidDag(result.curriculum)

\* C6 witness: a run has returned after two repairs of a draft with nodes that have two
\* or more prerequisites, among the actions a rewiring of one node's prerequisites
C6_Witness ==
    /\ pc = "done"
    /\ Len(repairs) = 2
    /\ \E i \in DOMAIN repairs : \E k \in DOMAIN repairs[i] :
          /\ repairs[i][k].action_type = REWIRE_PREREQS
          /\ repairs[i][k].node_id # NoneId
    /\ \E i \in DOMAIN draft.nodes : Len(draft.nodes[i].prerequisites) >= 2
    /\ draft # judged[1]

\* C6 witness: the fallback reordering has moved nodes and the run has returned
C6_ReorderWitness ==
    /\ pc = "done"
    /\ \E i \in DOMAIN repairs : repairs[i] = <<RepairAction(REORDER_NODES, "low", NoneId)>>
    /\ \E i \in DOMAIN draft.nodes : draft.nodes[i].id # i

-----------------------------------------------------------------------------
(* The shipped critic, judge, planner and executor behind a proposer that returns any
   curriculum, as a proposer with an external provider does. *)

InitJudge ==
    /\ world = "judge"
    /\ topic = NoResult
    /\ titles = <<>>
    /\ gspec = ExecSpec(MaxJudgeNodes)
    /\ resolver = [kind |-> "deterministic", pool |-> 3, relevant |-> {1, 2, 3}]
    /\ policy \in Policies
    /\ InitLocals
    /\ ExecAtRest
    /\ MinutesAtRest
    /\ DagAtRest
    /\ LlmAtRest
    /\ RunAtRest

SpecJudge == InitJudge /\ [][Next]_vars

\* a curriculum of at least four nodes none of which has a prerequisite
AllRoots(curriculum) ==
    LET nodes == DictItems(GetNodes(curriculum))
    IN Len(nodes) >= 4 /\ \A i \in DOMAIN nodes : nodes[i].prerequisites = <<>>

\* C16 as stated: for a curriculum of at least four nodes without prerequisites the
\* judge emits progression.all_roots and plan returns a rewire_prereqs action,
\* whatever max_actions_per_iteration >= 1 and the other diagnostics are.
C16_AsStated ==
    (pc = "decide" /\ AllRoots(draft) /\ policy.max_actions_per_iteration >= 1) =>
        /\ \E i \in DOMAIN report.diagnostics :
              report.diagnostics[i].rule_id = "progression.all_roots"
        /\ \E k \in DOMAIN actions : actions[k].action_type = REWIRE_PREREQS

\* the report carries a diagnostic of the rule
Reported(rule_id) ==
    \E i \in DOMAIN report.diagnostics : report.diagnostics[i].rule_id = rule_id

\* C16, amended: for a curriculum of at least four nodes without prerequisites the
\* judge emits progression.all_roots, and plan returns a rewire_prereqs action for
\* every max_actions_per_iteration >= 2, and for max_actions_per_iteration = 1 unless
\* the report also carries atomicity.threshold, whose critical rewrite_node action
\* then takes the one place.
C16_AllRootsRewire ==
    (pc = "decide" /\ AllRoots(draft) /\ policy.max_actions_per_iteration >= 1) =>
        /\ Reported("progression.all_roots")
        /\ (policy.max_actions_per_iteration >= 2 \/ ~Reported("atomicity.threshold")) =>
              \E k \in DOMAIN actions : actions[k].action_type = REWIRE_PREREQS
        /\ (policy.max_actions_per_iteration = 1 /\ Reported("atomicity.threshold")) =>
              actions = <<RepairAction(REWRITE_NODE, "critical", NoneId)>>

\* a curriculum of four roots was judged with other diagnostics beside all_roots, and
\* the one action planned is rewire_prereqs
C16_Witness ==
    /\ pc = "decide"
    /\ AllRoots(draft)
    /\ policy.max_actions_per_iteration = 1
    /\ Reported("atomicity.compound_capability")
    /\ Len(actions) = 1
    /\ actions[1].action_type = REWIRE_PREREQS

-----------------------------------------------------------------------------
(* dag.py called on its own: topological_order, is_acyclic and max_depth on any
   node list, with repeated ids, cycles, self-edges, duplicate edges and edges to
   ids no node has *)

\* longest node list given to the DAG utilities
MaxDagNodes == 3

\* the ids of the nodes: "N10" is before "N2" as strings compare
DagIds == {1, 2, 10}

\* an id no node has
UnknownId == 99

\* the prerequisite lists of node k: none, one or two other nodes, and one with a
\* self-edge, a duplicate edge and an edge to an unknown id
DagPrereqs(k) ==
    LET others == DagIds \ {k}
        a == CHOOSE x \in others : \A y \in others : x <= y
        b == CHOOSE x \in others : \A y \in others : x >= y
    IN {<<>>, <<a>>, <<b>>, <<a, b>>, <<k, a, a, UnknownId>>}

\* the node mappings (id and prerequisites) a list is made of
DagNodePool ==
    UNION {{[id |-> k, prerequisites |-> ps] : ps \in DagPrereqs(k)} : k \in DagIds}

InitDag ==
    /\ world = "dag"
    /\ pc = "call"
    /\ topic = NoResult
    /\ titles = <<>>
    /\ gspec = NoResult
    /\ policy = NoResult
    /\ resolver = NoResult
    /\ draft = NoResult
    /\ best = NoResult
    /\ best_score = -1
    /\ accepted = FALSE
    /\ stop_reason = ""
    /\ iterations = <<>>
    /\ iteration = 0
    /\ pedagogy = NoResult
    /\ report = NoResult
    /\ actions = <<>>
    /\ judged = <<>>
    /\ rounded = {}
    /\ repairs = <<>>
    /\ result = NoResult
    /\ ExecAtRest
    /\ total_minutes = 0
    /\ minutes = <<>>
    /\ dag_nodes \in SeqsUpTo(DagNodePool, MaxDagNodes)
    /\ dag_out = NoResult
    /\ LlmAtRest
    /\ RunAtRest

\* topological_order(nodes, fallback_sorted_on_cycle=...)
CallTopologicalOrder ==
    /\ pc = "call"
    /\ \E fallback \in BOOLEAN :
          dag_out' = [fn |-> "topological_order", fallback |-> fallback,
                      value |-> topological_order(dag_nodes, fallback)]
    /\ pc' = "returned"
    /\ UNCHANGED <<env_vars, loop_vars, exec_vars, minutes_vars, dag_nodes, llm_vars, run_vars>>

\* is_acyclic(nodes)
CallIsAcyclic ==
    /\ pc = "call"
    /\ dag_out' = [fn |-> "is_acyclic", fallback |-> FALSE, value |-> is_acyclic(dag_nodes)]
    /\ pc' = "returned"
    /\ UNCHANGED <<env_vars, loop_vars, exec_vars, minutes_vars, dag_nodes, llm_vars, run_vars>>

\* max_depth(nodes)
CallMaxDepth ==
    /\ pc = "call"
    /\ dag_out' = [fn |-> "max_depth", fallback |-> FALSE, value |-> max_depth(dag_nodes)]
    /\ pc' = "returned"
    /\ UNCHANGED <<env_vars, loop_vars, exec_vars, minutes_vars, dag_nodes, llm_vars, run_vars>>

NextDag == CallTopologicalOrder \/ CallIsAcyclic \/ CallMaxDepth

SpecDag == InitDag /\ [][NextDag]_vars

\* the ids of a node list
IdsOf(nodes) == {nodes[i].id : i \in DOMAIN nodes}

DistinctIds(nodes) == \A i, j \in DOMAIN nodes : i # j => nodes[i].id # nodes[j].id

\* the prerequisite edges <<p, k>> the entries of a list state: p a known id other than k
StatedEdges(nodes) ==
    UNION {{<<p, nodes[i].id>> : p \in (Range(nodes[i].prerequisites) \cap IdsOf(nodes))
                                        \ {nodes[i].id}} : i \in DOMAIN nodes}

\* the pairs joined by a path of at most 2^n edges
RECURSIVE Paths(_, _)
Paths(edges, n) ==
    IF n = 0 THEN edges
    ELSE LET shorter == Paths(edges, n - 1)
         IN shorter \cup {<<q[1][1], q[2][2]>> :
                              q \in {r \in shorter \X shorter : r[1][2] = r[2][1]}}

\* no id is joined to itself by a path of the stated edges
NoCycle(nodes) ==
    \A e \in Paths(StatedEdges(nodes), Cardinality(IdsOf(nodes))) : e[1] # e[2]

\* the place of an id in an order
PlaceIn(order, k) == CHOOSE i \in DOMAIN order : order[i] = k

\* each distinct id of the list exactly once
EachIdOnce(order, nodes) ==
    /\ Range(order) = IdsOf(nodes)
    /\ Len(order) = Cardinality(IdsOf(nodes))

\* every node is behind each prerequisite of its that is a known id other than itself
AfterPrerequisites(order, nodes) ==
    \A e \in StatedEdges(nodes) :
       /\ e[1] \in Range(order) /\ e[2] \in Range(order)
       /\ PlaceIn(order, e[1]) < PlaceIn(order, e[2])

\* the lists every permutation of a list gives
Rearranged(nodes) ==
    {[i \in DOMAIN nodes |-> nodes[f[i]]] :
        f \in {g \in [DOMAIN nodes -> DOMAIN nodes] :
                 \A i, j \in DOMAIN nodes : i # j => g[i] # g[j]}}

\* at every place of the order stands the least id of the nodes ready there: those
\* not yet emitted all of whose prerequisites are
ReadyAscending(order, nodes) ==
    \A k \in DOMAIN order :
       LET emitted == {order[j] : j \in 1..(k - 1)}
           ready == {x \in IdsOf(nodes) \ emitted :
                       \A e \in StatedEdges(nodes) : e[2] = x => e[1] \in emitted}
       IN \A y \in ready : y = order[k] \/ IdLess(order[k], y)

\* the place at which the last prerequisite of a node stands, 0 for a node without
Released(order, nodes, k) ==
    MaxOfSet({0} \cup {PlaceIn(order, e[1]) : e \in {f \in StatedEdges(nodes) : f[2] = k}})

\* first in, first out: the nodes without prerequisites first, then every node in the
\* order in which its last prerequisite was emitted; ascending ids among equals
QueueOrder(order, nodes) ==
    \A i, j \in DOMAIN order : i < j =>
       \/ Released(order, nodes, order[i]) < Released(order, nodes, order[j])
       \/ /\ Released(order, nodes, order[i]) = Released(order, nodes, order[j])
          /\ IdLess(order[i], order[j])

\* C17 as stated: for an acyclic node list topological_order returns each distinct id
\* once, every node behind its known prerequisites other than itself, the same list
\* for every permutation of the input, ready nodes in ascending id order.
C17_AsStated ==
    (pc = "returned" /\ dag_out.fn = "topological_order" /\ NoCycle(dag_nodes)) =>
        /\ EachIdOnce(dag_out.value, dag_nodes)
        /\ AfterPrerequisites(dag_out.value, dag_nodes)
        /\ \A other \in Rearranged(dag_nodes) :
              topological_order(other, dag_out.fallback) = dag_out.value
        /\ ReadyAscending(dag_out.value, dag_nodes)

\* C17, amended: for an acyclic node list topological_order returns each distinct id
\* once; when the ids of the list are pairwise distinct every node is behind its known
\* prerequisites other than itself, every permutation of the input gives the same
\* list, and the order is that of a queue: the nodes without prerequisites in
\* ascending id order, then each node in the order in which its last prerequisite was
\* emitted, ascending ids among the nodes one node releases.
C17_TopologicalOrder ==
    (pc = "returned" /\ dag_out.fn = "topological_order" /\ NoCycle(dag_nodes)) =>
        /\ EachIdOnce(dag_out.value, dag_nodes)
        /\ DistinctIds(dag_nodes) =>
              /\ AfterPrerequisites(dag_out.value, dag_nodes)
              /\ \A other \in Rearranged(dag_nodes) :
                    topological_order(other, dag_out.fallback) = dag_out.value
              /\ QueueOrder(dag_out.value, dag_nodes)

\* topological_order was called on three nodes with edges, given in another order
\* than the one returned
C17_Witness ==
    /\ pc = "returned"
    /\ dag_out.fn = "topological_order"
    /\ NoCycle(dag_nodes)
    /\ DistinctIds(dag_nodes)
    /\ Len(dag_nodes) = 3
    /\ StatedEdges(dag_nodes) # {}
    /\ dag_out.value # [i \in DOMAIN dag_nodes |-> dag_nodes[i].id]
    /\ dag_out.value # SortedIds(IdsOf(dag_nodes))

\* the edges of the prerequisite graph: those of the entry node_map keeps for each id
KeptEdges(nodes) ==
    UNION {{<<p, k>> : p \in EdgePrereqs(node_map(nodes), k)} : k \in IdsOf(nodes)}

\* the ids on a cycle of the prerequisite graph
OnCycle(nodes) ==
    {k \in IdsOf(nodes) : <<k, k>> \in Paths(KeptEdges(nodes), Cardinality(IdsOf(nodes)))}

\* the ids neither on a cycle nor behind one
Resolvable(nodes) ==
    {k \in IdsOf(nodes) \ OnCycle(nodes) :
        \A c \in OnCycle(nodes) :
           <<c, k>> \notin Paths(KeptEdges(nodes), Cardinality(IdsOf(nodes)))}

\* C18 as stated: when the prerequisite graph has a cycle, topological_order with the
\* default fallback returns the nodes Kahn's algorithm resolves, in their resolved
\* order, followed by the remaining nodes in ascending id order; is_acyclic is true
\* iff the resolved order has as many entries as there are nodes.
C18_AsStated ==
    LET resolved == topological_order(dag_nodes, FALSE)
    IN /\ (/\ pc = "returned"
           /\ dag_out.fn = "topological_order"
           /\ dag_out.fallback
           /\ OnCycle(dag_nodes) # {}) =>
              dag_out.value = resolved \o SortedIds(IdsOf(dag_nodes) \ Range(resolved))
       /\ (pc = "returned" /\ dag_out.fn = "is_acyclic") =>
              dag_out.value = (Len(resolved) = Cardinality(IdsOf(dag_nodes)))

\* C18, amended: when the prerequisite graph has a cycle, topological_order with the
\* default fallback returns all node ids in ascending id order; without the fallback
\* it returns the nodes neither on a cycle nor behind one, each once and behind its
\* prerequisites; is_acyclic is true iff the graph has no cycle, which is iff that
\* resolved order has as many entries as there are distinct node ids.
C18_CycleFallback ==
    LET resolved == topological_order(dag_nodes, FALSE)
    IN /\ (/\ pc = "returned"
           /\ dag_out.fn = "topological_order"
           /\ OnCycle(dag_nodes) # {}) =>
              IF dag_out.fallback
              THEN dag_out.value = SortedIds(IdsOf(dag_nodes))
              ELSE /\ Range(dag_out.value) = Resolvable(dag_nodes)
                   /\ Len(dag_out.value) = Cardinality(Resolvable(dag_nodes))
                   /\ \A e \in KeptEdges(dag_nodes) :
                         e[2] \in Range(dag_out.value) =>
                            PlaceIn(dag_out.value, e[1]) < PlaceIn(dag_out.value, e[2])
       /\ (pc = "returned" /\ dag_out.fn = "is_acyclic") =>
              /\ dag_out.value = (OnCycle(dag_nodes) = {})
              /\ dag_out.value = (Len(resolved) = Cardinality(IdsOf(dag_nodes)))

\* topological_order was called with the fallback on a graph with a cycle and a node
\* before it whose id is not the least
C18_Witness ==
    /\ pc = "returned"
    /\ dag_out.fn = "topological_order"
    /\ dag_out.fallback
    /\ OnCycle(dag_nodes) # {}
    /\ Resolvable(dag_nodes) # {}
    /\ dag_out.value[1] \notin Resolvable(dag_nodes)

\* reference: the number of edges of the longest path that ends in k
RECURSIVE LongestTo(_, _)
LongestTo(edges, k) ==
    LET into == {e \in edges : e[2] = k}
    IN IF into = {} THEN 0 ELSE 1 + MaxOfSet({LongestTo(edges, e[1]) : e \in into})

\* reference: the number of edges of the longest prerequisite chain of an acyclic
\* list; every longest chain starts at a node without prerequisites
LongestChain(nodes) ==
    IF nodes = <<>> THEN 0
    ELSE MaxOfSet({LongestTo(KeptEdges(nodes), k) : k \in IdsOf(nodes)})

\* C19: for an acyclic node list max_depth is the number of edges of the longest
\* prerequisite chain from a root; it is 0 for the empty list and for a list without
\* edges; self-edges, duplicate edges and edges to unknown ids do not count.
C19_MaxDepth ==
    (pc = "returned" /\ dag_out.fn = "max_depth" /\ OnCycle(dag_nodes) = {}) =>
        /\ dag_out.value = LongestChain(dag_nodes)
        /\ dag_nodes = <<>> => dag_out.value = 0
        /\ (\A i \in DOMAIN dag_nodes :
               Range(dag_nodes[i].prerequisites) \subseteq {dag_nodes[i].id, UnknownId})
              => dag_out.value = 0
        /\ DistinctIds(dag_nodes) =>
              dag_out.value
                 = MaxOfSet({0} \cup {LongestTo(StatedEdges(dag_nodes), k) : k \in IdsOf(dag_nodes)})

\* max_depth was called on a chain of three nodes, the middle one with a self-edge,
\* a duplicate edge and an edge to an unknown id
C19_Witness ==
    /\ pc = "returned"
    /\ dag_out.fn = "max_depth"
    /\ OnCycle(dag_nodes) = {}
    /\ DistinctIds(dag_nodes)
    /\ dag_out.value = 2
    /\ \E i \in DOMAIN dag_nodes :
          /\ dag_nodes[i].id \in Range(dag_nodes[i].prerequisites)
          /\ UnknownId \in Range(dag_nodes[i].prerequisites)
          /\ Len(dag_nodes[i].prerequisites) > Cardinality(Range(dag_nodes[i].prerequisites))

-----------------------------------------------------------------------------
(* planning/proposer.py and llm/codex.py: Proposer.propose with the client it calls *)

INTERNAL == "internal"

CODEX_EXEC == "codex_exec"

MaxRetryBudget == 1

MaxProposeNodes == 2

\* LearningCompilerError(ErrorCode.INTERNAL_ERROR, ...)
InternalError == [raised |-> "internal_error"]

\* LearningCompilerError(ErrorCode.CONFIG_ERROR, ...)
ConfigError == [raised |-> "config_error"]

UnsupportedModel == "exit_nonzero_model_not_supported"

\* the ways one codex run fails: each sets last_error and continues
RunFailures ==
    {"timeout", "exit_nonzero", UnsupportedModel, "no_output_file", "invalid_json",
     "root_not_object"}

\* isinstance(candidate, dict)
IsObject(value) == value.json = "object"

\* the objects a codex run can write: no "curriculum" key (get gives None), a value
\* that is no object, or an object (empty, a curriculum without nodes, the draft sent)
ResponseObjects(payload) ==
    {[curriculum |-> v] : v \in {[json |-> "null"], [json |-> "string"], [json |-> "array"]}}
    \cup {[curriculum |-> [json |-> "null"], absent |-> TRUE]}
    \cup {[curriculum |-> [json |-> "object", value |-> c]] :
            c \in {[empty |-> TRUE],
                   [topic |-> payload.topic, has_nodes |-> FALSE, nodes |-> <<>>,
                    open_questions |-> <<>>],
                   payload}}

\* attempts = max(1, policy.retry_budget + 1)
Attempts(model_policy) == Max(1, model_policy.retry_budget + 1)

REMOTE_LLM == "remote_llm"

\* llm_client.py build_llm_client: the client of each provider; the command of the
\* codex client, the API key and the base URL of the remote client come from the
\* environment
build_llm_client(model_policy) ==
    IF model_policy.provider = REMOTE_LLM
    THEN [kind : {REMOTE_LLM}, api_key : BOOLEAN, base_url_valid : BOOLEAN]
    ELSE IF model_policy.provider = CODEX_EXEC
         THEN [kind : {CODEX_EXEC}, command_set : BOOLEAN]
         ELSE [kind : {INTERNAL}]

\* the status codes urlopen raises HTTPError with
HttpStatuses == {400, 404, 408, 409, 429, 499, 500, 503}

\* exc.code of an HTTPError in the run log
StatusOf(run) == CHOOSE status \in HttpStatuses : ToString(status) = run

\* RemoteLLMClient._is_retryable_http_error, were every error status retryable
_is_retryable_http_error_always(status_code) ==
    status_code >= 400 \/ status_code \in {408, 409, 429}

\* RemoteLLMClient._is_retryable_http_error
_is_retryable_http_error(status_code) ==
    status_code >= 500 \/ status_code \in {408, 409, 429}

propose_frame ==
    <<env_vars, best, best_score, accepted, stop_reason, iterations, iteration, pedagogy,
      report, actions, judged, repairs, rounded, result, exec_vars, minutes_vars, dag_vars,
      run_vars>>

\* a Proposer constructed with the client build_llm_client gives for the provider of
\* the policy it is called with
InitProposer ==
    /\ world = "proposer"
    /\ topic = NoResult
    /\ titles = <<>>
    /\ gspec \in {ExecSpec(n) : n \in 1..MaxProposeNodes}
    /\ resolver = [kind |-> "deterministic", pool |-> 3, relevant |-> {1, 2, 3}]
    /\ policy \in [provider : {INTERNAL, REMOTE_LLM, CODEX_EXEC},
                   retry_budget : (-1)..MaxRetryBudget]
    /\ InitLocals
    /\ ExecAtRest
    /\ MinutesAtRest
    /\ DagAtRest
    /\ llm_calls = <<>>
    /\ llm_runs = <<>>
    /\ llm_response = NoResult
    /\ llm_client \in build_llm_client(policy)
    /\ RunAtRest

\* propose, internal provider: return payload
ProposeInternal ==
    /\ world = "proposer"
    /\ pc = "propose"
    /\ policy.provider = INTERNAL
    /\ draft' = propose(gspec, resolver)
    /\ pc' = "returned"
    /\ UNCHANGED <<propose_frame, llm_vars, run_vars>>

\* propose, any other provider: self._client.run_json(LLMRequest(stage="proposer", ...))
ProposeCallsClient ==
    /\ world = "proposer"
    /\ pc = "propose"
    /\ policy.provider # INTERNAL
    /\ llm_calls' = Append(llm_calls, "proposer")
    /\ llm_runs' = <<>>
    /\ pc' = "run_json"
    /\ UNCHANGED <<propose_frame, draft, llm_response, llm_client>>

\* run_json: if not self._command: raise CONFIG_ERROR; propose lets it pass
RunJsonWithoutCommand ==
    /\ world = "proposer"
    /\ pc = "run_json"
    /\ llm_client.kind = CODEX_EXEC
    /\ ~llm_client.command_set
    /\ draft' = ConfigError
    /\ pc' = "raised"
    /\ UNCHANGED <<propose_frame, llm_vars, run_vars>>

\* run_json: one pass of the loop over range(attempts)
CodexRun ==
    /\ world = "proposer"
    /\ pc = "run_json"
    /\ llm_client.kind = CODEX_EXEC
    /\ llm_client.command_set
    /\ Len(llm_runs) < Attempts(policy)
    /\ \/ \E failure \in RunFailures :
             /\ llm_runs' = Append(llm_runs, failure)
             /\ UNCHANGED <<pc, llm_response>>
       \/ \E payload \in ResponseObjects(propose(gspec, resolver)) :
             /\ llm_runs' = Append(llm_runs, "object")
             /\ llm_response' = payload
             /\ pc' = "check"
    /\ UNCHANGED <<propose_frame, draft, llm_calls, llm_client>>

\* run_json: the loop ended without an object; propose lets the error pass
RunJsonExhausted ==
    /\ world = "proposer"
    /\ pc = "run_json"
    /\ llm_client.kind = CODEX_EXEC
    /\ llm_client.command_set
    /\ Len(llm_runs) = Attempts(policy)
    /\ draft' = IF llm_runs[Len(llm_runs)] = UnsupportedModel
                THEN ConfigError
                ELSE InternalError
    /\ pc' = "raised"
    /\ UNCHANGED <<propose_frame, llm_vars, run_vars>>

\* RemoteLLMClient.run_json: _resolve_api_key raises CONFIG_ERROR without a key
RemoteWithoutApiKey ==
    /\ world = "proposer"
    /\ pc = "run_json"
    /\ llm_client.kind = REMOTE_LLM
    /\ ~llm_client.api_key
    /\ draft' = ConfigError
    /\ pc' = "raised"
    /\ UNCHANGED <<propose_frame, llm_vars, run_vars>>

\* RemoteLLMClient.run_json: _build_http_request raises CONFIG_ERROR in the first pass
RemoteInvalidBaseUrl ==
    /\ world = "proposer"
    /\ pc = "run_json"
    /\ llm_client.kind = REMOTE_LLM
    /\ llm_client.api_key
    /\ ~llm_client.base_url_valid
    /\ draft' = ConfigError
    /\ pc' = "raised"
    /\ UNCHANGED <<propose_frame, llm_vars, run_vars>>

\* RemoteLLMClient.run_json: one pass of the loop over range(1, attempts + 1); attempt
\* is Len(llm_runs) + 1.  A body read ends the loop, an HTTPError raises when it is the
\* last attempt or the status is not retryable, a URLError raises when it is the last
\* attempt, and any other exception of urlopen or read (a timeout while reading) is
\* not caught
RemoteAttempt ==
    /\ world = "proposer"
    /\ pc = "run_json"
    /\ llm_client.kind = REMOTE_LLM
    /\ llm_client.api_key
    /\ llm_client.base_url_valid
    /\ Len(llm_runs) < Attempts(policy)
    /\ \/ /\ llm_runs' = Append(llm_runs, "response")
          /\ pc' = "parse"
          /\ UNCHANGED draft
       \/ \E status \in HttpStatuses :
             /\ llm_runs' = Append(llm_runs, ToString(status))
             /\ IF Len(llm_runs) + 1 = Attempts(policy)
                   \/ ~_is_retryable_http_error(status)
                THEN draft' = InternalError /\ pc' = "raised"
                ELSE UNCHANGED <<draft, pc>>
       \/ /\ llm_runs' = Append(llm_runs, "url_error")
          /\ IF Len(llm_runs) + 1 = Attempts(policy)
             THEN draft' = InternalError /\ pc' = "raised"
             ELSE UNCHANGED <<draft, pc>>
       \/ /\ llm_runs' = Append(llm_runs, "read_timeout")
          /\ draft' = [raised |-> "TimeoutError"]
          /\ pc' = "raised"
    /\ UNCHANGED <<propose_frame, llm_calls, llm_response, llm_client>>

\* RemoteLLMClient.run_json after the loop: json.loads, the root check and
\* extract_remote_payload each raise INTERNAL_ERROR; otherwise the payload is returned
RemoteParse ==
    /\ world = "proposer"
    /\ pc = "parse"
    /\ \/ /\ draft' = InternalError
          /\ pc' = "raised"
          /\ UNCHANGED llm_vars
       \/ \E payload \in ResponseObjects(propose(gspec, resolver)) :
             /\ llm_response' = payload
             /\ pc' = "check"
             /\ UNCHANGED <<draft, llm_calls, llm_runs, llm_client>>
    /\ UNCHANGED propose_frame

\* CheckShape, except that an ill-shaped response goes back into the retry loop
CheckShapeRetrying ==
    /\ world = "proposer"
    /\ pc = "check"
    /\ IF IsObject(llm_response.curriculum)
       THEN /\ draft' = llm_response.curriculum.value
            /\ pc' = "returned"
            /\ UNCHANGED llm_vars
       ELSE /\ draft' = draft
            /\ pc' = "run_json"
            /\ UNCHANGED llm_vars
    /\ UNCHANGED propose_frame

\* propose: candidate = response.get("curriculum"); raise unless it is a dict
CheckShape ==
    /\ world = "proposer"
    /\ pc = "check"
    /\ IF IsObject(llm_response.curriculum)
       THEN /\ draft' = llm_response.curriculum.value
            /\ pc' = "returned"
            /\ UNCHANGED llm_vars
       ELSE /\ draft' = InternalError
            /\ pc' = "raised"
            /\ UNCHANGED llm_vars
    /\ UNCHANGED propose_frame

NextProposer ==
    \/ ProposeInternal
    \/ ProposeCallsClient
    \/ RunJsonWithoutCommand
    \/ CodexRun
    \/ RunJsonExhausted
    \/ RemoteWithoutApiKey
    \/ RemoteInvalidBaseUrl
    \/ RemoteAttempt
    \/ RemoteParse
    \/ CheckShape

SpecProposer == InitProposer /\ [][NextProposer]_vars

\* the response propose holds has no object-valued "curriculum"
IllShaped == llm_response # NoResult /\ ~IsObject(llm_response.curriculum)

\* C20: with the internal provider propose returns the draft it synthesized, unchanged,
\* and never calls the client.  With another provider, when the object the client
\* returned has no object-valued "curriculum", propose raises an internal error; it
\* has made one run_json call, and the codex run that gave the object is the last run
\* of that call: the ill-shaped response is not retried.
C20_ShapeCheck ==
    /\ (policy.provider = INTERNAL /\ pc # "propose")
          => /\ pc = "returned"
             /\ draft = propose(gspec, resolver)
             /\ Len(draft.nodes) = gspec.target_nodes
             /\ llm_calls = <<>>
             /\ llm_runs = <<>>
             /\ llm_response = NoResult
    /\ (policy.provider # INTERNAL /\ IllShaped)
          => /\ pc \in {"check", "raised"}
             /\ pc = "raised" => draft = InternalError
             /\ llm_calls = <<"proposer">>
             /\ llm_runs # <<>>
             /\ \A i \in DOMAIN llm_runs :
                   llm_runs[i] \in {"object", "response"} <=> i = Len(llm_runs)

\* an ill-shaped object came back with retry budget left, and propose has raised
C20_Witness ==
    /\ pc = "raised"
    /\ policy.provider = CODEX_EXEC
    /\ IllShaped
    /\ draft = InternalError
    /\ Len(llm_runs) < Attempts(policy)

\* the run log entries after which the remote client may make another attempt: a
\* URLError, or an HTTPError whose status is at least 500 or is 408, 409 or 429
RetriedFailure(run) ==
    \/ run = "url_error"
    \/ /\ run \in {ToString(status) : status \in HttpStatuses}
       /\ StatusOf(run) >= 500 \/ StatusOf(run) \in {408, 409, 429}

\* C21: one run_json call of the codex or the remote client makes at most
\* max(1, retry_budget + 1) attempts.  Of the remote client, every attempt but the last
\* ended in a URLError or a retryable HTTP status; after such a failure with attempts
\* left the call goes on; a response ends the attempts (nothing follows it), and the
\* call returns its payload to propose; any other HTTP status raises an internal error
\* at once; and a failure in the last attempt raises an internal error.
C21_BoundedRetry ==
    /\ Len(llm_runs) <= Attempts(policy)
    /\ Attempts(policy) >= 1
    /\ policy.retry_budget >= 0 => Len(llm_runs) <= policy.retry_budget + 1
    /\ Len(llm_calls) <= 1
    /\ (llm_client.kind = REMOTE_LLM /\ llm_runs # <<>>) =>
          LET last == llm_runs[Len(llm_runs)]
          IN /\ \A i \in 1..(Len(llm_runs) - 1) : RetriedFailure(llm_runs[i])
             /\ (RetriedFailure(last) /\ Len(llm_runs) < Attempts(policy))
                   => pc = "run_json" /\ draft = NoResult
             /\ (RetriedFailure(last) /\ Len(llm_runs) = Attempts(policy))
                   => pc = "raised" /\ draft = InternalError
             /\ (last \in {ToString(status) : status \in HttpStatuses} /\ ~RetriedFailure(last))
                   => pc = "raised" /\ draft = InternalError
             /\ last = "response" => pc \in {"parse", "check", "returned", "raised"}
             /\ llm_response # NoResult => last = "response"
             /\ pc = "returned" => /\ last = "response"
                                   /\ draft = llm_response.curriculum.value

\* the remote client came back with a response in a later attempt than the first, and
\* propose returned its curriculum
C21_Witness ==
    /\ llm_client.kind = REMOTE_LLM
    /\ pc = "returned"
    /\ Len(llm_runs) >= 2
    /\ llm_runs[1] = "url_error"
    /\ llm_runs[Len(llm_runs)] = "response"

-----------------------------------------------------------------------------
(* orchestration/types.py, stage.py, pipeline.py, commands_basic.py: the run commands *)
(* over the artifacts of one run directory.  An artifact is its st_mtime_ns, 0 when the *)
(* file is missing; logs/events.jsonl, which repeats every history event, is left out.  *)

INITIALIZED == "initialized"

SPEC_READY == "spec_ready"

GENERATED == "generated"

VALIDATED == "validated"

PLANNED == "planned"

ITERATED == "iterated"

STAGE_ORDER == <<INITIALIZED, SPEC_READY, GENERATED, VALIDATED, PLANNED, ITERATED>>

STAGE_INDEX(stage) == (CHOOSE i \in DOMAIN STAGE_ORDER : STAGE_ORDER[i] = stage) - 1

MaxClock == 2

MaxCommands == 2

\* events.py stage_event(...).to_dict(), without the time
stage_event(stage, message) == [stage |-> stage, message |-> message]

\* stage.py append_history
append_history(meta, stage, message) ==
    [meta EXCEPT !.history = Append(@, stage_event(stage, message))]

\* stage.py ensure_stage, were the comparison >=
ensure_stage_repeating(meta, stage, message) ==
    IF STAGE_INDEX(stage) >= STAGE_INDEX(meta.stage)
    THEN [meta |-> append_history([meta EXCEPT !.stage = stage], stage, message),
          returned |-> TRUE]
    ELSE [meta |-> meta, returned |-> FALSE]

\* stage.py ensure_stage: the meta it leaves and the value it returns
ensure_stage(meta, stage, message) ==
    IF STAGE_INDEX(stage) > STAGE_INDEX(meta.stage)
    THEN [meta |-> append_history([meta EXCEPT !.stage = stage], stage, message),
          returned |-> TRUE]
    ELSE [meta |-> meta, returned |-> FALSE]

\* stage.py looks_ready_spec: topic_spec_errors gives no error
looks_ready_spec(files) == files.topic_spec # 0 /\ files.spec_ready

\* stage.py marker_is_current, were a dependency as old as the marker too new
marker_is_current_strict(marker, dependencies) ==
    /\ marker # 0
    /\ \A i \in DOMAIN dependencies :
          dependencies[i] # 0 /\ ~(dependencies[i] >= marker)

\* stage.py marker_is_current over latest_mtime_ns of the marker and the dependencies
marker_is_current(marker, dependencies) ==
    /\ marker # 0
    /\ \A i \in DOMAIN dependencies :
          dependencies[i] # 0 /\ ~(dependencies[i] > marker)

validation_is_current(files) ==
    marker_is_current(files.validation_pass_marker,
                      <<files.topic_spec, files.curriculum, files.validation_report>>)

plan_is_current(files) ==
    marker_is_current(files.plan, <<files.topic_spec, files.curriculum>>)

diff_is_current(files) ==
    marker_is_current(files.diff_report,
                      <<files.curriculum>>
                      \o (IF files.previous_curriculum # 0
                          THEN <<files.previous_curriculum>>
                          ELSE <<>>))

\* stage.py infer_stage_from_artifacts
infer_stage_from_artifacts(files) ==
    LET s1 == IF looks_ready_spec(files) THEN SPEC_READY ELSE INITIALIZED
        s2 == IF s1 = SPEC_READY /\ files.curriculum # 0 THEN GENERATED ELSE s1
        s3 == IF s2 = GENERATED /\ validation_is_current(files) THEN VALIDATED ELSE s2
        s4 == IF s3 = VALIDATED /\ plan_is_current(files) THEN PLANNED ELSE s3
        s5 == IF s4 = PLANNED /\ diff_is_current(files) THEN ITERATED ELSE s4
    IN s5

\* stage.py sync_stage: the meta it leaves and the changed flag it returns
sync_stage(files, meta) ==
    LET inferred == infer_stage_from_artifacts(files)
        current == meta.stage
        changed == current # inferred
    IN [meta |-> IF changed
                 THEN append_history([meta EXCEPT !.stage = inferred], inferred,
                                     "auto-sync from artifacts")
                 ELSE meta,
        returned |-> changed]

\* what run_call keeps of an ensure_stage or sync_stage call; files are the artifacts
\* sync_stage read
StageCall(fn, stage, files, before, out) ==
    [fn |-> fn, stage |-> stage, files |-> files, before |-> before, after |-> out.meta,
     returned |-> out.returned]

\* stage.py persist_if_changed, pipeline.py _save_meta_if_advanced: run.json after a
\* call that returned `changed`
Persisted(persisted, meta, changed) == IF changed THEN meta ELSE persisted

\* the command record while the command runs
Command(name, options, count) ==
    [name |-> name, options |-> options, count |-> count, steps |-> <<>>,
     validate_rc |-> <<>>, rc |-> <<>>, raised |-> FALSE]

Step(cmd, name) == [cmd EXCEPT !.steps = Append(@, name)]

Returns(cmd, code) == [cmd EXCEPT !.rc = <<code>>]

Raises(cmd) == [cmd EXCEPT !.raised = TRUE]

CommandNames == {"status", "validate", "plan", "iterate", "run"}

\* commands_basic.py cmd_init: the run directory of a fresh run; the topic spec is the
\* copied template
InitPipeline ==
    /\ world = "pipeline"
    /\ pc = "idle"
    /\ topic = NoResult
    /\ titles = <<>>
    /\ gspec = NoResult
    /\ policy = NoResult
    /\ resolver = NoResult
    /\ draft = NoResult
    /\ best = NoResult
    /\ best_score = -1
    /\ accepted = FALSE
    /\ stop_reason = ""
    /\ iterations = <<>>
    /\ iteration = 0
    /\ pedagogy = NoResult
    /\ report = NoResult
    /\ actions = <<>>
    /\ judged = <<>>
    /\ rounded = {}
    /\ repairs = <<>>
    /\ result = NoResult
    /\ ExecAtRest
    /\ MinutesAtRest
    /\ DagAtRest
    /\ LlmAtRest
    /\ run_clock = 1
    /\ run_files \in [topic_spec : {1}, spec_ready : BOOLEAN, curriculum : {0},
                      previous_curriculum : {0}, validation_report : {0},
                      validation_pass_marker : {0}, plan : {0}, diff_report : {0}]
    /\ run_meta = NoResult
    /\ run_json = [stage |-> INITIALIZED,
                   history |-> <<stage_event(INITIALIZED, "run initialized")>>]
    /\ run_cmd = Returns(Command("init", FALSE, 0), 0)
    /\ run_call = NoResult

pipeline_frame == <<env_vars, loop_vars, exec_vars, minutes_vars, dag_vars, llm_vars>>

\* the user rewrites inputs/topic_spec.json between two commands
EditTopicSpec ==
    /\ world = "pipeline"
    /\ pc = "idle"
    /\ \E ready \in BOOLEAN :
          run_files' = [run_files EXCEPT !.topic_spec = run_clock, !.spec_ready = ready]
    /\ UNCHANGED <<pc, run_clock, run_meta, run_json, run_cmd, run_call, pipeline_frame>>

\* the user writes or rewrites outputs/curriculum/curriculum.json between two commands
EditCurriculum ==
    /\ world = "pipeline"
    /\ pc = "idle"
    /\ run_files' = [run_files EXCEPT !.curriculum = run_clock]
    /\ UNCHANGED <<pc, run_clock, run_meta, run_json, run_cmd, run_call, pipeline_frame>>

\* time passes
Tick ==
    /\ world = "pipeline"
    /\ run_clock < MaxClock
    /\ run_clock' = run_clock + 1
    /\ UNCHANGED <<pc, run_files, run_meta, run_json, run_cmd, run_call, pipeline_frame>>

\* pipeline.py _load_context and commands_basic.py cmd_status: load_run, sync_stage,
\* persist_if_changed; status returns 0 after it
LoadContext ==
    /\ world = "pipeline"
    /\ pc = "idle"
    /\ run_cmd.count < MaxCommands
    /\ \E name \in CommandNames, options \in BOOLEAN :
          /\ options => name = "run"
          /\ LET out == sync_stage(run_files, run_json)
                 cmd == Command(name, options, run_cmd.count + 1)
             IN /\ run_meta' = out.meta
                /\ run_json' = Persisted(run_json, out.meta, out.returned)
                /\ run_call' = StageCall("sync_stage", infer_stage_from_artifacts(run_files),
                                         run_files, run_json, out)
                /\ IF name = "status"
                   THEN run_cmd' = Returns(cmd, 0) /\ pc' = "idle"
                   ELSE run_cmd' = cmd /\ pc' = "loaded"
    /\ UNCHANGED <<run_files, run_clock, pipeline_frame>>

\* run_iterate: the curriculum file is missing
IterateMissingCurriculum ==
    /\ world = "pipeline"
    /\ pc = "loaded"
    /\ run_cmd.name = "iterate"
    /\ run_files.curriculum = 0
    /\ run_cmd' = Returns(run_cmd, 1)
    /\ pc' = "idle"
    /\ UNCHANGED <<run_files, run_clock, run_meta, run_json, run_call, pipeline_frame>>

\* run_full with options: _apply_scope_options; the scope helpers raise, or the
\* synthesized topic spec, which passed the contract check, is written
ApplyScopeOptions ==
    /\ world = "pipeline"
    /\ pc = "loaded"
    /\ run_cmd.name = "run"
    /\ run_cmd.options
    /\ \/ /\ run_cmd' = Raises(run_cmd)
          /\ pc' = "idle"
          /\ UNCHANGED <<run_files, run_meta, run_json, run_call>>
       \/ LET out == ensure_stage(run_meta, SPEC_READY,
                                  "topic spec synthesized from scope document")
          IN /\ run_files' = [run_files EXCEPT !.topic_spec = run_clock,
                                               !.spec_ready = TRUE]
             /\ run_meta' = out.meta
             /\ run_json' = Persisted(run_json, out.meta, out.returned)
             /\ run_call' = StageCall("ensure_stage", SPEC_READY, NoResult, run_meta, out)
             /\ pc' = "generate"
             /\ UNCHANGED run_cmd
    /\ UNCHANGED <<run_clock, pipeline_frame>>

\* run_full without options at stage initialized: StageConflictError
TopicSpecNotReady ==
    /\ world = "pipeline"
    /\ pc = "loaded"
    /\ run_cmd.name = "run"
    /\ ~run_cmd.options
    /\ run_meta.stage = INITIALIZED
    /\ run_cmd' = Raises(run_cmd)
    /\ pc' = "idle"
    /\ UNCHANGED <<run_files, run_clock, run_meta, run_json, run_call, pipeline_frame>>

\* run_full: _generate_curriculum and the check that follows it.  The injected
\* generator raises, writes the curriculum file, or returns without writing it.
GenerateCurriculum ==
    /\ world = "pipeline"
    /\ run_cmd.name = "run"
    /\ \/ pc = "generate"
       \/ pc = "loaded" /\ ~run_cmd.options /\ run_meta.stage # INITIALIZED
    /\ LET copied == IF run_files.curriculum # 0
                     THEN [run_files EXCEPT !.previous_curriculum = run_clock]
                     ELSE run_files
           out == ensure_stage(run_meta, GENERATED, "agent generated curriculum")
       IN \/ /\ run_files' = copied
             /\ run_cmd' = Raises(run_cmd)
             /\ pc' = "idle"
             /\ UNCHANGED <<run_meta, run_json, run_call>>
          \/ \E written \in BOOLEAN :
                /\ run_files' = IF written
                                THEN [copied EXCEPT !.curriculum = run_clock]
                                ELSE copied
                /\ run_meta' = out.meta
                /\ run_json' = Persisted(run_json, out.meta, out.returned)
                /\ run_call' = StageCall("ensure_stage", GENERATED, NoResult, run_meta, out)
                /\ IF run_files'.curriculum = 0
                   THEN run_cmd' = Raises(run_cmd) /\ pc' = "idle"
                   ELSE run_cmd' = run_cmd /\ pc' = "validate"
    /\ UNCHANGED <<run_clock, pipeline_frame>>

\* what a command does after _validate returned code
AfterValidate(cmd, code, files) ==
    IF cmd.name = "validate" THEN [cmd |-> Returns(cmd, code), pc |-> "idle"]
    ELSE IF code # 0 THEN [cmd |-> Returns(cmd, 1), pc |-> "idle"]
    ELSE IF cmd.name = "iterate" /\ plan_is_current(files) /\ validation_is_current(files)
         THEN [cmd |-> cmd, pc |-> "diff"]
         ELSE [cmd |-> cmd, pc |-> "plan"]

\* pipeline.py _validate, were a failed validator run to leave marker and stage alone
ValidateKeepingStage ==
    /\ world = "pipeline"
    /\ \/ pc = "validate"
       \/ pc = "loaded" /\ run_cmd.name \in {"validate", "plan"}
       \/ pc = "loaded" /\ run_cmd.name = "iterate" /\ run_files.curriculum # 0
    /\ LET cmd == Step(run_cmd, "validate")
       IN IF ~looks_ready_spec(run_files) \/ run_files.curriculum = 0
          THEN LET next == AfterValidate([cmd EXCEPT !.validate_rc = <<1>>], 1, run_files)
               IN /\ run_cmd' = next.cmd
                  /\ pc' = next.pc
                  /\ UNCHANGED <<run_files, run_meta, run_json, run_call>>
          ELSE \E returncode \in {0, 1, 2} :
                  LET reported == [run_files EXCEPT !.validation_report = run_clock]
                      files == IF returncode = 0
                               THEN [reported EXCEPT !.validation_pass_marker = run_clock]
                               ELSE reported
                      out == IF returncode = 0
                             THEN ensure_stage(run_meta, VALIDATED, "validator passed")
                             ELSE [meta |-> run_meta, returned |-> FALSE]
                      next == AfterValidate([cmd EXCEPT !.validate_rc = <<returncode>>],
                                            returncode, files)
                  IN /\ run_files' = files
                     /\ run_meta' = out.meta
                     /\ run_json' = Persisted(run_json, out.meta, out.returned)
                     /\ run_call' = IF returncode = 0
                                    THEN StageCall("ensure_stage", VALIDATED, NoResult, run_meta, out)
                                    ELSE run_call
                     /\ run_cmd' = next.cmd
                     /\ pc' = next.pc
    /\ UNCHANGED <<run_clock, pipeline_frame>>

\* pipeline.py _validate and what the command does with its return code
Validate ==
    /\ world = "pipeline"
    /\ \/ pc = "validate"
       \/ pc = "loaded" /\ run_cmd.name \in {"validate", "plan"}
       \/ pc = "loaded" /\ run_cmd.name = "iterate" /\ run_files.curriculum # 0
    /\ LET cmd == Step(run_cmd, "validate")
       IN IF ~looks_ready_spec(run_files) \/ run_files.curriculum = 0
          THEN LET next == AfterValidate([cmd EXCEPT !.validate_rc = <<1>>], 1, run_files)
               IN /\ run_cmd' = next.cmd
                  /\ pc' = next.pc
                  /\ UNCHANGED <<run_files, run_meta, run_json, run_call>>
          ELSE \E returncode \in {0, 1, 2} :
                  LET reported == [run_files EXCEPT !.validation_report = run_clock]
                      files == IF returncode = 0
                               THEN [reported EXCEPT !.validation_pass_marker = run_clock]
                               ELSE [reported EXCEPT !.validation_pass_marker = 0]
                      out == IF returncode = 0
                             THEN ensure_stage(run_meta, VALIDATED, "validator passed")
                             ELSE sync_stage(files, run_meta)
                      next == AfterValidate([cmd EXCEPT !.validate_rc = <<returncode>>],
                                            returncode, files)
                  IN /\ run_files' = files
                     /\ run_meta' = out.meta
                     /\ run_json' = Persisted(run_json, out.meta, out.returned)
                     /\ run_call' = IF returncode = 0
                                    THEN StageCall("ensure_stage", VALIDATED, NoResult, run_meta, out)
                                    ELSE StageCall("sync_stage",
                                                   infer_stage_from_artifacts(files),
                                                   files, run_meta, out)
                     /\ run_cmd' = next.cmd
                     /\ pc' = next.pc
    /\ UNCHANGED <<run_clock, pipeline_frame>>

\* pipeline.py _save_plan: the artifacts do not parse (LearningCompilerError), or the
\* plan is written and the stage advanced
SavePlan ==
    /\ world = "pipeline"
    /\ pc = "plan"
    /\ LET cmd == Step(run_cmd, "plan")
           out == ensure_stage(run_meta, PLANNED, "plan generated")
       IN \/ /\ run_cmd' = Raises(cmd)
             /\ pc' = "idle"
             /\ UNCHANGED <<run_files, run_meta, run_json, run_call>>
          \/ /\ run_files' = [run_files EXCEPT !.plan = run_clock]
             /\ run_meta' = out.meta
             /\ run_json' = Persisted(run_json, out.meta, out.returned)
             /\ run_call' = StageCall("ensure_stage", PLANNED, NoResult, run_meta, out)
             /\ IF cmd.name = "plan"
                THEN run_cmd' = Returns(cmd, 0) /\ pc' = "idle"
                ELSE run_cmd' = cmd /\ pc' = "diff"
    /\ UNCHANGED <<run_clock, pipeline_frame>>

\* pipeline.py _save_diff, then return 0
SaveDiff ==
    /\ world = "pipeline"
    /\ pc = "diff"
    /\ LET cmd == Step(run_cmd, "diff")
           out == ensure_stage(run_meta, ITERATED, "diff generated")
       IN \/ /\ run_cmd' = Raises(cmd)
             /\ UNCHANGED <<run_files, run_meta, run_json, run_call>>
          \/ /\ run_files' = [run_files EXCEPT !.diff_report = run_clock]
             /\ run_meta' = out.meta
             /\ run_json' = Persisted(run_json, out.meta, out.returned)
             /\ run_call' = StageCall("ensure_stage", ITERATED, NoResult, run_meta, out)
             /\ run_cmd' = Returns(cmd, 0)
    /\ pc' = "idle"
    /\ UNCHANGED <<run_clock, pipeline_frame>>

NextPipeline ==
    \/ EditTopicSpec
    \/ EditCurriculum
    \/ Tick
    \/ LoadContext
    \/ IterateMissingCurriculum
    \/ ApplyScopeOptions
    \/ TopicSpecNotReady
    \/ GenerateCurriculum
    \/ Validate
    \/ SavePlan
    \/ SaveDiff

SpecPipeline == InitPipeline /\ [][NextPipeline]_vars

\* the conditions of the stages after "initialized", in the order of the stages: the
\* topic spec is ready; the curriculum exists; the validation marker exists and is
\* not older than topic spec, curriculum and report, which exist; the plan exists and
\* is not older than topic spec and curriculum; the diff report exists and is not
\* older than the curriculum and, where there is one, the previous curriculum
StageCondition(files, k) ==
    CASE k = 1 -> files.topic_spec # 0 /\ files.spec_ready
      [] k = 2 -> files.curriculum # 0
      [] k = 3 -> /\ files.validation_pass_marker # 0
                  /\ \A d \in {files.topic_spec, files.curriculum, files.validation_report} :
                        d # 0 /\ files.validation_pass_marker >= d
      [] k = 4 -> /\ files.plan # 0
                  /\ \A d \in {files.topic_spec, files.curriculum} :
                        d # 0 /\ files.plan >= d
      [] k = 5 -> /\ files.diff_report # 0
                  /\ files.curriculum # 0
                  /\ files.diff_report >= files.curriculum
                  /\ files.diff_report >= files.previous_curriculum

\* the highest stage whose condition and all earlier conditions hold
HighestStage(files) ==
    STAGE_ORDER[1 + MaxOfSet({k \in 0..5 : \A j \in 1..k : StageCondition(files, j)})]

\* C22: after sync_stage the stage of the run is the stage inferred from the
\* artifacts, the highest stage whose condition and all earlier conditions hold; a
\* validated run whose curriculum is newer than the validation marker is demoted to
\* generated; and the call appends one history event, carrying the new stage, when
\* the stage changed, and none when it did not.
C22_SyncStage ==
    (run_call # NoResult /\ run_call.fn = "sync_stage") =>
        LET before == run_call.before
            after == run_call.after
            changed == before.stage # after.stage
        IN /\ after.stage = run_call.stage
           /\ after.stage = HighestStage(run_call.files)
           /\ run_call.returned = changed
           /\ changed => /\ Len(after.history) = Len(before.history) + 1
                         /\ SubSeq(after.history, 1, Len(before.history)) = before.history
                         /\ after.history[Len(after.history)].stage = after.stage
           /\ ~changed => after.history = before.history
           /\ (/\ before.stage = VALIDATED
               /\ run_call.files.spec_ready
               /\ run_call.files.curriculum > run_call.files.validation_pass_marker)
                 => after.stage = GENERATED /\ changed

\* a validated run was demoted to generated: the curriculum was rewritten after the
\* validation marker
C22_Witness ==
    /\ run_call # NoResult
    /\ run_call.fn = "sync_stage"
    /\ run_call.before.stage = VALIDATED
    /\ run_call.after.stage = GENERATED
    /\ run_call.files.validation_pass_marker # 0
    /\ run_call.files.curriculum > run_call.files.validation_pass_marker
    /\ run_json = run_call.after

\* C23: when the validation step of run_plan, run_iterate or run_full returned
\* non-zero, the command ran neither the plan step nor the diff step, it returned
\* non-zero, and the stage in run.json is none of validated, planned, iterated.
C23_FailedValidationBlocks ==
    (/\ run_cmd # NoResult
     /\ run_cmd.name \in {"plan", "iterate", "run"}
     /\ run_cmd.validate_rc # <<>>
     /\ run_cmd.validate_rc[1] # 0)
       => /\ "plan" \notin Range(run_cmd.steps)
          /\ "diff" \notin Range(run_cmd.steps)
          /\ pc = "idle"
          /\ ~run_cmd.raised
          /\ run_cmd.rc # <<>>
          /\ run_cmd.rc[1] # 0
          /\ run_json.stage \notin {VALIDATED, PLANNED, ITERATED}

\* the validator failed in a command that found the run at planned or iterated
C23_Witness ==
    /\ run_cmd # NoResult
    /\ run_cmd.name \in {"plan", "iterate", "run"}
    /\ run_cmd.validate_rc = <<2>>
    /\ run_cmd.rc = <<1>>
    /\ run_call.fn = "sync_stage"
    /\ run_call.before.stage \in {PLANNED, ITERATED}
    /\ run_json.stage = GENERATED

\* the last history event carries the stage of the meta
Aligned(meta) == meta.history # <<>> /\ meta.history[Len(meta.history)].stage = meta.stage

\* C29: ensure_stage(meta, s) leaves the stage at the later of the old stage and s;
\* it returns True and appends exactly one history event, carrying the new stage, when
\* s is later than the old stage, and otherwise returns False and leaves stage and
\* history as they were.  The last history event of a fresh run carries its stage,
\* and after any sequence of ensure_stage and sync_stage calls it still does.
C29_EnsureStage ==
    /\ (run_call # NoResult /\ run_call.fn = "ensure_stage") =>
          LET before == run_call.before
              after == run_call.after
              old == STAGE_INDEX(before.stage)
              new == STAGE_INDEX(run_call.stage)
          IN /\ STAGE_INDEX(after.stage) = Max(old, new)
             /\ STAGE_INDEX(after.stage) >= old
             /\ run_call.returned = (new > old)
             /\ new > old => /\ after.stage = run_call.stage
                             /\ after.history
                                  = Append(before.history,
                                           after.history[Len(after.history)])
                             /\ after.history[Len(after.history)].stage = after.stage
             /\ ~(new > old) => after = before
    /\ (run_call # NoResult /\ Aligned(run_call.before)) => Aligned(run_call.after)
    /\ run_meta # NoResult => Aligned(run_meta)
    /\ run_json # NoResult => Aligned(run_json)

\* ensure_stage was called with an earlier stage than the run had, and with the stage
\* the run had
C29_Witness ==
    /\ run_call # NoResult
    /\ run_call.fn = "ensure_stage"
    /\ run_call.stage = GENERATED
    /\ run_call.before.stage = ITERATED
    /\ ~run_call.returned
    /\ run_meta.stage = ITERATED
-----------------------------------------------------------------------------
(* The artifact of an accepted run, and the trace of the actions *)

\* the reports the judge can give a curriculum when it is judged again
RejudgedReports(curriculum) ==
    Evaluate(world, curriculum, resolver, Critique(world, curriculum))

\* C24 as stated: when optimize returns with accepted = true, the returned curriculum
\* is the draft judged in the accepting round, and judging it again gives no hard
\* failure and a total score of at least the target.
C24_AsStated ==
    (pc = "done" /\ result.trace.accepted) =>
        /\ result.curriculum = judged[Len(judged)]
        /\ \A rep \in RejudgedReports(result.curriculum) :
              /\ rep.hard_fail_count = 0
              /\ rep.total_score >= policy.target_score

\* C28 as stated: in every iteration record, selected_actions is the tuple of actions
\* the repair executor applied in that iteration, and an iteration without a repair
\* records no selected actions.
C28_AsStated ==
    pc = "done" =>
        \A i \in DOMAIN iterations :
            iterations[i].selected_actions = IF i \in DOMAIN repairs THEN repairs[i] ELSE <<>>

\* C28: in every iteration record, selected_actions is the tuple the planner returned
\* in that iteration. It is the tuple the repair executor was given in every iteration
\* with a repair; an iteration without a repair is the last one, and it is the
\* accepting iteration, which keeps the planned actions in its record, or an iteration
\* for which the planner returned no action.
C28_SelectedActions ==
    /\ Len(repairs) <= Len(iterations)
    /\ \A i \in DOMAIN repairs : iterations[i].selected_actions = repairs[i]
    /\ (iterations # <<>> /\ pc # "loop") =>
          iterations[Len(iterations)].selected_actions = actions
    /\ pc = "done" =>
          \A i \in DOMAIN iterations \ DOMAIN repairs :
              /\ i = Len(iterations)
              /\ result.trace.accepted \/ iterations[i].selected_actions = <<>>
              /\ result.trace.iterations[i].selected_actions = actions

\* C28 witness: the second iteration accepted its draft, no repair took place in it,
\* and its record has the actions the planner returned
C28_Witness ==
    /\ pc = "done"
    /\ result.trace.accepted
    /\ Len(iterations) = 2
    /\ Len(repairs) = 1
    /\ result.trace.iterations[2].selected_actions # <<>>

-----------------------------------------------------------------------------
(* Node identity, planned actions without a target, the fallback and the cap of
   retime_node *)

\* how many entries of a node list have the id
IdCount(nodes, id) == Cardinality({i \in DOMAIN nodes : nodes[i].id = id})

\* C25 as stated: for every curriculum whose entries are nodes, in any order, and every
\* action sequence, the result of apply has as many nodes as the input and the same
\* multiset of node ids: no id is duplicated and no node is removed.
C25_AsStated ==
    (/\ pc = "applied"
     /\ exec_in.has_nodes
     /\ \A i \in DOMAIN exec_in.nodes : IsDict(exec_in.nodes[i])
     /\ exec_out # Raised) =>
        /\ Len(exec_out.nodes) = Len(exec_in.nodes)
        /\ \A id \in 1..(MaxExecNodes + 1) :
              IdCount(exec_out.nodes, id) = IdCount(exec_in.nodes, id)

\* C30 as stated: after a retime_node action on a node of the list, with or without
\* prerequisites and whatever minutes the spec allots to its index, the node's
\* estimate_minutes is at most 220.
C30_AsStated ==
    (/\ pc = "applied"
     /\ Len(exec_actions) = 1
     /\ exec_actions[1].action_type = RETIME_NODE
     /\ exec_actions[1].node_id # NoneId
     /\ exec_in.has_nodes
     /\ \A i \in DOMAIN exec_in.nodes : IsDict(exec_in.nodes[i])
     /\ \A i \in DOMAIN exec_in.nodes : exec_in.nodes[i].id = i
     /\ exec_out # Raised) =>
        \A i \in DOMAIN exec_out.nodes :
            exec_out.nodes[i].id = exec_actions[1].node_id
                => exec_out.nodes[i].estimate_minutes <= 220

\* every action of the tuple is of a targeted type and names no node
Nodeless(acts) ==
    /\ acts # <<>>
    /\ \A k \in DOMAIN acts :
          acts[k].action_type \in TargetedTypes /\ acts[k].node_id = NoneId

\* the draft at hand after the repair of round i, once it is known
AfterRepair(i) ==
    IF i < Len(judged) THEN judged[i + 1]
    ELSE IF pc \in {"loop", "return", "done"} THEN draft
    ELSE judged[i]

\* C26 as stated: when every action planned in an iteration with a repair is of a
\* targeted type without node_id, the repaired draft equals the draft before, every
\* later iteration records the scores and the selected actions of that iteration, and
\* the run ends with "max_iterations_reached".
C26_AsStated ==
    \A i \in DOMAIN repairs :
        Nodeless(repairs[i]) =>
            /\ pc # "raised"
            /\ AfterRepair(i) = judged[i]
            /\ \A j \in DOMAIN iterations :
                  j > i => /\ iterations[j].score_summary = iterations[i].score_summary
                           /\ iterations[j].selected_actions = iterations[i].selected_actions
            /\ pc = "done" =>
                  /\ result.trace.stop_reason = "max_iterations_reached"
                  /\ ~result.trace.accepted
                  /\ Len(result.trace.iterations) = policy.max_iterations

\* the entries of the draft's node list are all mappings
OnlyMappings(curriculum) ==
    /\ curriculum.has_nodes
    /\ \A i \in DOMAIN curriculum.nodes : IsDict(curriculum.nodes[i])

\* C26: when every action planned in an iteration with a repair is of a targeted type
\* without node_id, the repaired draft has the mappings of the node list of the draft
\* before, in their order, and everything else of it, and it equals the draft before
\* when that draft's node list holds only mappings; every later iteration records the
\* scores and the selected actions of that iteration, and the run ends with
\* "max_iterations_reached".
C26_NodelessActionsAreNoOps ==
    \A i \in DOMAIN repairs :
        Nodeless(repairs[i]) =>
            /\ pc # "raised"
            /\ AfterRepair(i) = [judged[i] EXCEPT !.has_nodes = TRUE,
                                                  !.nodes = DictItems(GetNodes(judged[i]))]
            /\ OnlyMappings(judged[i]) => AfterRepair(i) = judged[i]
            /\ \A j \in DOMAIN iterations :
                  j > i => /\ iterations[j].score_summary = iterations[i].score_summary
                           /\ iterations[j].selected_actions = iterations[i].selected_actions
            /\ pc = "done" =>
                  /\ result.trace.stop_reason = "max_iterations_reached"
                  /\ ~result.trace.accepted
                  /\ Len(result.trace.iterations) = policy.max_iterations

\* C26 witness: a run of two iterations in both of which the planner selected only
\* actions without a node, among them a rewiring, has returned; the proposer's draft
\* had an entry that is not a mapping, which the first repair dropped
C26_Witness ==
    /\ pc = "done"
    /\ Len(repairs) = 2
    /\ ~OnlyMappings(judged[1])
    /\ OnlyMappings(judged[2])
    /\ Nodeless(repairs[1])
    /\ \E k \in DOMAIN repairs[1] : repairs[1][k].action_type = REWIRE_PREREQS
    /\ result.trace.iterations[2].selected_actions = repairs[1]

\* the fallback of the planner
Fallback == <<RepairAction(REORDER_NODES, "low", NoneId)>>

\* the set of diagnostics of a report of the curriculum
DiagnosticSets(curriculum) ==
    {Range(rep.diagnostics) : rep \in RejudgedReports(curriculum)}

\* C27 as stated: reorder_nodes is idempotent and changes neither total_score nor
\* hard_fail_count nor the set of diagnostics; once the planner emits the fallback in
\* iteration k, every later iteration emits the same fallback with the same score, the
\* run is never accepted, and it ends with "max_iterations_reached".
C27_AsStated ==
    /\ \A i \in DOMAIN repairs :
          (repairs[i] = Fallback /\ pc # "raised") =>
              /\ StableSort(AfterRepair(i).nodes) = AfterRepair(i).nodes
              /\ DiagnosticSets(AfterRepair(i)) = DiagnosticSets(judged[i])
    /\ \A k \in DOMAIN iterations :
          iterations[k].selected_actions = Fallback =>
              /\ \A j \in DOMAIN iterations :
                    j > k => /\ iterations[j].selected_actions = Fallback
                             /\ iterations[j].score_summary = iterations[k].score_summary
              /\ pc = "done" =>
                    /\ ~result.trace.accepted
                    /\ result.trace.stop_reason = "max_iterations_reached"

\* the nodes of the curriculum have pairwise distinct ids
DistinctNodeIds(curriculum) == DistinctIds(DictItems(GetNodes(curriculum)))

\* C27: reorder_nodes is idempotent, and for a curriculum whose nodes have pairwise
\* distinct ids it changes neither total_score nor hard_fail_count nor the set of
\* diagnostics. Once the planner emits the fallback for such a curriculum in an
\* iteration that does not accept its draft, every later iteration emits the same
\* fallback with the same score, the run is never accepted, and it ends with
\* "max_iterations_reached". An iteration that emits the fallback for a draft that
\* meets the acceptance test is the last one, and the run ends accepted.
C27_FallbackPlateau ==
    /\ \A i \in DOMAIN repairs :
          (repairs[i] = Fallback /\ pc # "raised") =>
              /\ AfterRepair(i).nodes = StableSort(DictItems(GetNodes(judged[i])))
              /\ StableSort(AfterRepair(i).nodes) = AfterRepair(i).nodes
              /\ DistinctNodeIds(judged[i]) =>
                    /\ DiagnosticSets(AfterRepair(i)) = DiagnosticSets(judged[i])
                    /\ {<<rep.total_score, rep.hard_fail_count>> :
                            rep \in RejudgedReports(AfterRepair(i))}
                          = {<<rep.total_score, rep.hard_fail_count>> :
                                rep \in RejudgedReports(judged[i])}
    /\ \A k \in DOMAIN iterations :
          iterations[k].selected_actions = Fallback =>
              IF MetInRound(k)
              THEN /\ k = Len(iterations)
                   /\ k \notin DOMAIN repairs
                   /\ pc = "done" => /\ result.trace.accepted
                                     /\ result.trace.stop_reason = "accepted_threshold_met"
              ELSE DistinctNodeIds(judged[k]) =>
                   /\ \A j \in DOMAIN iterations :
                         j > k => /\ iterations[j].selected_actions = Fallback
                                  /\ iterations[j].score_summary
                                        = iterations[k].score_summary
                   /\ pc = "done" =>
                         /\ ~result.trace.accepted
                         /\ result.trace.stop_reason = "max_iterations_reached"
                         /\ Len(result.trace.iterations) = policy.max_iterations

\* C27 witness: the planner emitted the fallback in both iterations of a run, the
\* first reordering moved nodes, the second moved none, and the run has returned
C27_Witness ==
    /\ pc = "done"
    /\ repairs = <<Fallback, Fallback>>
    /\ judged[2].nodes # DictItems(judged[1].nodes)
    /\ draft = judged[2]
    /\ result.trace.stop_reason = "max_iterations_reached"

====
